---- MODULE Spec2Model ----
(***************************************************************************)
(* A state-machine model of the rgbe Game Boy emulator core: the driver    *)
(* (src/emu.rs), the CPU (src/cpu), the bus and its memories (src/bus.rs,  *)
(* src/ram.rs), the cartridge (src/cart.rs), the timer (src/timer.rs),     *)
(* the OAM DMA engine (src/dma.rs), the PPU/LCD mode machine               *)
(* (src/ppu/mod.rs, src/lcd.rs), the joypad (src/gamepad.rs) and the APU   *)
(* (src/apu).                                                              *)
(*                                                                         *)
(* The specifications share the variables:                                 *)
(*   Spec        the driver: Emulator::step on a program drawn from a      *)
(*               small instruction alphabet                                *)
(*   SpecTimer   the timer unit: Timer::tick and Timer::write              *)
(*   SpecPpu     the PPU/LCD unit: Ppu::tick and the driver's flag routing *)
(*   SpecDma     the DMA unit: Dma::start and Dma::tick                    *)
(*   SpecBus     Bus::read and Bus::write on work RAM, its echo and OAM    *)
(*   SpecOamDma  the driver running a program that starts OAM DMA          *)
(*   SpecCpu     the driver on stack, branch, subtract and CB instructions *)
(*   SpecCart    MBC register writes and ROM reads through the bus         *)
(*   SpecCartRam the cartridge RAM gate: enable writes, RAM reads, writes  *)
(*   SpecStat    the STAT interrupt sources as the PPU runs                *)
(*   SpecFrame   Emulator::run_frame under pause, resume, stop and HALT    *)
(*   SpecJoypad  Gamepad::set_button and the joypad request routing        *)
(*   SpecApu     Apu::write on channel, master and wave registers          *)
(*   SpecLyc     the driver on a program that writes LYC                   *)
(*   SpecMirror  bus writes to VRAM and OAM and the PPU's copies           *)
(*   SpecRoute   the driver with set_button calls: request routing to IF   *)
(*   SpecPixel   Ppu::render_scanline on one pixel column                  *)
(*   SpecSeq     Apu::tick after a program has triggered the channels      *)
(*   SpecDac     Apu::write on one channel's DAC and trigger registers     *)
(***************************************************************************)
EXTENDS Integers, Sequences, FiniteSets, TLC

VARIABLES cpu, bus, timer, dma, lcd, ppu, gamepad, ctx, apu, last

vars == <<cpu, bus, timer, dma, lcd, ppu, gamepad, ctx, apu, last>>

(***************************************************************************)
(* Bit primitives (src/common.rs) on bytes and words held as naturals.     *)
(***************************************************************************)
Pow2(n) == 2 ^ n

\* bit(value, n): is bit n of value set
bit(value, n) == (value \div Pow2(n)) % 2 = 1

BitVal(value, n) == (value \div Pow2(n)) % 2

\* a & b on 8-bit values
And8(a, b) ==
    BitVal(a, 0) * BitVal(b, 0) + 2 * BitVal(a, 1) * BitVal(b, 1)
  + 4 * BitVal(a, 2) * BitVal(b, 2) + 8 * BitVal(a, 3) * BitVal(b, 3)
  + 16 * BitVal(a, 4) * BitVal(b, 4) + 32 * BitVal(a, 5) * BitVal(b, 5)
  + 64 * BitVal(a, 6) * BitVal(b, 6) + 128 * BitVal(a, 7) * BitVal(b, 7)

\* a | b on 8-bit values
Or8(a, b) == a + b - And8(a, b)

\* bit_set(value, n, on)
bit_set(value, n, on) ==
    IF on THEN (IF bit(value, n) THEN value ELSE value + Pow2(n))
          ELSE (IF bit(value, n) THEN value - Pow2(n) ELSE value)

(***************************************************************************)
(* Timer (src/timer.rs).  div is the 16-bit internal counter.              *)
(***************************************************************************)
TimerNew ==
    [div |-> 43980, tima |-> 0, tma |-> 0, tac |-> 0, interrupt_requested |-> FALSE]

\* Timer::read
TimerRead(t, address) ==
    CASE address = 65284 -> t.div \div 256
      [] address = 65285 -> t.tima
      [] address = 65286 -> t.tma
      [] address = 65287 -> t.tac
      [] OTHER -> 255

\* Timer::write
TimerWrite(t, address, value) ==
    CASE address = 65284 -> [t EXCEPT !.div = 0]
      [] address = 65285 -> [t EXCEPT !.tima = value]
      [] address = 65286 -> [t EXCEPT !.tma = value]
      [] address = 65287 -> [t EXCEPT !.tac = value % 8]
      [] OTHER -> t

timer_enabled(t) == bit(t.tac, 2)

\* TIMER_FREQUENCIES[tac & 3]
timer_frequency(t) ==
    CASE t.tac % 4 = 0 -> 1024
      [] t.tac % 4 = 1 -> 16
      [] t.tac % 4 = 2 -> 64
      [] OTHER -> 256

\* the bit of the counter watched for a falling edge
TapBit(freq) ==
    CASE freq = 1024 -> 9
      [] freq = 16 -> 3
      [] freq = 64 -> 5
      [] OTHER -> 7

\* a faulty increment: TIMA wraps to 0 instead of reloading from TMA
TimaOverflowMut(t) ==
    IF t.tima = 255
    THEN [t EXCEPT !.tima = 0, !.interrupt_requested = TRUE]
    ELSE [t EXCEPT !.tima = t.tima + 1]

\* the TIMA increment of Timer::tick: reload from TMA and request on overflow
TimaIncrement(t) ==
    IF t.tima = 255
    THEN [t EXCEPT !.tima = t.tma, !.interrupt_requested = TRUE]
    ELSE [t EXCEPT !.tima = t.tima + 1]

\* Timer::tick, one T-cycle
TimerTick(t) ==
    LET prev_div == t.div
        t1 == [t EXCEPT !.div = (t.div + 1) % 65536]
    IN  IF ~timer_enabled(t1) THEN t1
        ELSE LET bit_pos == TapBit(timer_frequency(t1))
                 prev_bit == BitVal(prev_div, bit_pos)
                 curr_bit == BitVal(t1.div, bit_pos)
             IN  IF prev_bit = 1 /\ curr_bit = 0 THEN TimaIncrement(t1) ELSE t1

\* Timer::clear_interrupt
TimerClearInterrupt(t) == [t EXCEPT !.interrupt_requested = FALSE]

(***************************************************************************)
(* OAM DMA engine (src/dma.rs).                                            *)
(***************************************************************************)
DmaNew == [active |-> FALSE, byte |-> 0, value |-> 0, delay |-> 0]

\* a faulty start: one idle tick instead of two
DmaStartMut(d, value) ==
    [active |-> TRUE, byte |-> 0, value |-> value, delay |-> 1]

\* Dma::start
DmaStart(d, value) ==
    [active |-> TRUE, byte |-> 0, value |-> value, delay |-> 2]

\* Dma::source_address / Dma::dest_address
source_address(d) == d.value * 256 + d.byte
dest_address(d) == 65024 + d.byte

\* Dma::tick: the engine after the tick and the transfer it asks for
\* (<<>> is None, <<src, dst>> is Some((src, dst)))
DmaTick(d) ==
    IF ~d.active THEN [dma |-> d, xfer |-> <<>>]
    ELSE IF d.delay > 0 THEN [dma |-> [d EXCEPT !.delay = d.delay - 1], xfer |-> <<>>]
    ELSE LET nb == d.byte + 1
         IN  [dma |-> [d EXCEPT !.byte = nb, !.active = ~(nb >= 160)],
              xfer |-> <<source_address(d), dest_address(d)>>]

(***************************************************************************)
(* LCD register file (src/lcd.rs).                                         *)
(***************************************************************************)
LcdNew ==
    [lcdc |-> 145, stat |-> 2, ly |-> 0, lyc |-> 0, wy |-> 0, wx |-> 0,
     stat_interrupt |-> FALSE]

lcd_enabled(l) == bit(l.lcdc, 7)
window_enabled(l) == bit(l.lcdc, 5)

\* Lcd::mode: 0 HBlank, 1 VBlank, 2 OamScan, 3 Transfer
mode(l) == l.stat % 4

\* a variant that also tests the LYC source at every mode change
check_stat_interrupt_with_lyc(l) ==
    LET should_interrupt ==
            \/ l.ly = l.lyc /\ bit(l.stat, 6)
            \/ CASE mode(l) = 0 -> bit(l.stat, 3)
                 [] mode(l) = 1 -> bit(l.stat, 4)
                 [] mode(l) = 2 -> bit(l.stat, 5)
                 [] OTHER -> FALSE
    IN  IF should_interrupt THEN [l EXCEPT !.stat_interrupt = TRUE] ELSE l

\* Lcd::check_stat_interrupt
check_stat_interrupt(l) ==
    LET should_interrupt ==
            CASE mode(l) = 0 -> bit(l.stat, 3)
              [] mode(l) = 1 -> bit(l.stat, 4)
              [] mode(l) = 2 -> bit(l.stat, 5)
              [] OTHER -> FALSE
    IN  IF should_interrupt THEN [l EXCEPT !.stat_interrupt = TRUE] ELSE l

\* Lcd::set_mode
set_mode(l, m) ==
    check_stat_interrupt([l EXCEPT !.stat = (l.stat - (l.stat % 4)) + m])

\* Lcd::check_lyc
check_lyc(l) ==
    LET coincidence == l.ly = l.lyc
        l1 == [l EXCEPT !.stat = bit_set(l.stat, 2, coincidence)]
    IN  IF coincidence /\ bit(l1.stat, 6) THEN [l1 EXCEPT !.stat_interrupt = TRUE] ELSE l1

\* Lcd::set_ly
set_ly(l, value) == check_lyc([l EXCEPT !.ly = value])

\* Lcd::inc_ly
inc_ly(l) ==
    LET n == (l.ly + 1) % 256
    IN  check_lyc([l EXCEPT !.ly = IF n > 153 THEN 0 ELSE n])

\* Lcd::write
LcdWrite(l, address, value) ==
    CASE address = 65344 -> [l EXCEPT !.lcdc = value]
      [] address = 65345 -> [l EXCEPT !.stat = (l.stat % 8) + (value - (value % 8))]
      [] address = 65349 -> check_lyc([l EXCEPT !.lyc = value])
      [] address = 65354 -> [l EXCEPT !.wy = value]
      [] address = 65355 -> [l EXCEPT !.wx = value]
      [] OTHER -> l

\* Lcd::clear_stat_interrupt
clear_stat_interrupt(l) == [l EXCEPT !.stat_interrupt = FALSE]

(***************************************************************************)
(* PPU mode machine (src/ppu/mod.rs).  A PPU/LCD pair is [ppu, lcd].       *)
(* Pixel output is modelled with SpecPixel; here, of render_scanline only  *)
(* the window line counter, of scan_oam nothing, bears on the state.       *)
(***************************************************************************)
PpuNew ==
    [line_ticks |-> 0, current_frame |-> 0, window_line |-> 0, vblank_interrupt |-> FALSE]

\* Ppu::render_scanline (the window line counter)
render_scanline(p, l) ==
    IF l.ly >= 144 THEN p
    ELSE IF window_enabled(l) /\ l.wy <= l.ly /\ l.wx <= 166
         THEN [p EXCEPT !.window_line = p.window_line + 1]
         ELSE p

\* Ppu::mode_oam_scan
mode_oam_scan(p, l) ==
    IF p.line_ticks >= 80 THEN [ppu |-> p, lcd |-> set_mode(l, 3)]
    ELSE [ppu |-> p, lcd |-> l]

\* Ppu::mode_transfer
mode_transfer(p, l) ==
    IF p.line_ticks >= 80 + 172
    THEN [ppu |-> render_scanline(p, l), lcd |-> set_mode(l, 0)]
    ELSE [ppu |-> p, lcd |-> l]

\* Ppu::mode_hblank
mode_hblank(p, l) ==
    IF p.line_ticks >= 456
    THEN LET l1 == inc_ly(l)
         IN  IF l1.ly >= 144
             THEN [ppu |-> [p EXCEPT !.line_ticks = 0, !.vblank_interrupt = TRUE,
                                     !.current_frame = p.current_frame + 1],
                   lcd |-> set_mode(l1, 1)]
             ELSE [ppu |-> [p EXCEPT !.line_ticks = 0], lcd |-> set_mode(l1, 2)]
    ELSE [ppu |-> p, lcd |-> l]

\* Ppu::mode_vblank
mode_vblank(p, l) ==
    IF p.line_ticks >= 456
    THEN LET l1 == inc_ly(l)
         IN  IF l1.ly >= 154
             THEN [ppu |-> [p EXCEPT !.line_ticks = 0, !.window_line = 0],
                   lcd |-> set_mode(set_ly(l1, 0), 2)]
             ELSE [ppu |-> [p EXCEPT !.line_ticks = 0], lcd |-> l1]
    ELSE [ppu |-> p, lcd |-> l]

\* Ppu::tick, one T-cycle
PpuTick(p, l) ==
    IF ~lcd_enabled(l) THEN [ppu |-> p, lcd |-> l]
    ELSE LET p1 == [p EXCEPT !.line_ticks = p.line_ticks + 1]
         IN  CASE mode(l) = 2 -> mode_oam_scan(p1, l)
               [] mode(l) = 3 -> mode_transfer(p1, l)
               [] mode(l) = 0 -> mode_hblank(p1, l)
               [] OTHER -> mode_vblank(p1, l)

\* Ppu::clear_vblank_interrupt
clear_vblank_interrupt(p) == [p EXCEPT !.vblank_interrupt = FALSE]

(***************************************************************************)
(* APU registers (src/apu/mod.rs, src/apu/channels.rs): the four channels  *)
(* as their register writes and triggers leave them, and the master        *)
(* registers, and its ticking: the frame sequencer and the channels'       *)
(* timers.  Sample generation, which only fills the audio buffer, is left  *)
(* out.                                                                    *)
(***************************************************************************)
\* Channel1::new
Channel1New ==
    [enabled |-> FALSE, dac_enabled |-> FALSE, sweep_period |-> 0,
     sweep_negate |-> FALSE, sweep_shift |-> 0, sweep_timer |-> 0,
     sweep_enabled |-> FALSE, sweep_shadow |-> 0, duty |-> 0, length_counter |-> 0,
     volume |-> 0, volume_initial |-> 0, envelope_add |-> FALSE,
     envelope_period |-> 0, envelope_timer |-> 0, frequency |-> 0,
     length_enabled |-> FALSE, timer |-> 0, duty_position |-> 0]

\* Channel2::new
Channel2New ==
    [enabled |-> FALSE, dac_enabled |-> FALSE, duty |-> 0, length_counter |-> 0,
     volume |-> 0, volume_initial |-> 0, envelope_add |-> FALSE,
     envelope_period |-> 0, envelope_timer |-> 0, frequency |-> 0,
     length_enabled |-> FALSE, timer |-> 0, duty_position |-> 0]

\* Channel3::new
Channel3New ==
    [enabled |-> FALSE, dac_enabled |-> FALSE, length_counter |-> 0,
     volume_code |-> 0, frequency |-> 0, length_enabled |-> FALSE,
     wave_ram |-> [i \in 0 .. 15 |-> 0], timer |-> 0, wave_position |-> 0]

\* Channel4::new
Channel4New ==
    [enabled |-> FALSE, dac_enabled |-> FALSE, length_counter |-> 0, volume |-> 0,
     volume_initial |-> 0, envelope_add |-> FALSE, envelope_period |-> 0,
     envelope_timer |-> 0, clock_shift |-> 0, width_mode |-> FALSE,
     divisor_code |-> 0, length_enabled |-> FALSE, timer |-> 0, lfsr |-> 32767]

\* a faulty envelope write: turning the DAC off leaves the channel enabled
write_envelope_keeps_channel(c, value) ==
    [c EXCEPT !.volume_initial = value \div 16,
              !.envelope_add = bit(value, 3),
              !.envelope_period = value % 8,
              !.dac_enabled = value \div 8 # 0]

\* the volume envelope register of channels 1, 2 and 4 (write_nr12,
\* write_nr22, write_nr42)
write_envelope(c, value) ==
    LET dac == value \div 8 # 0
    IN  [c EXCEPT !.volume_initial = value \div 16,
                  !.envelope_add = bit(value, 3),
                  !.envelope_period = value % 8,
                  !.dac_enabled = dac,
                  !.enabled = IF dac THEN @ ELSE FALSE]

\* the frequency registers (write_nr13/23/33 and the low bits of nr14/24/34)
write_freq_lo(c, value) == [c EXCEPT !.frequency = (@ \div 256) * 256 + value]

write_freq_hi(c, value) ==
    [c EXCEPT !.length_enabled = bit(value, 6),
              !.frequency = (@ % 256) + (value % 8) * 256]

\* Channel1::calculate_sweep on 16-bit words
calculate_sweep(c) ==
    LET delta == c.sweep_shadow \div Pow2(c.sweep_shift)
        new_freq == IF c.sweep_negate THEN (c.sweep_shadow - delta + 65536) % 65536
                    ELSE (c.sweep_shadow + delta) % 65536
    IN  IF new_freq > 2047 THEN [c EXCEPT !.enabled = FALSE] ELSE c

\* Channel1::trigger
Channel1Trigger(c) ==
    LET c1 == [c EXCEPT !.enabled = c.dac_enabled,
                        !.length_counter = IF @ = 0 THEN 64 ELSE @,
                        !.timer = (2048 - c.frequency) * 4,
                        !.envelope_timer = c.envelope_period,
                        !.volume = c.volume_initial,
                        !.sweep_shadow = c.frequency,
                        !.sweep_timer = IF c.sweep_period > 0 THEN c.sweep_period ELSE 8,
                        !.sweep_enabled = c.sweep_period > 0 \/ c.sweep_shift > 0]
    IN  IF c1.sweep_shift > 0 THEN calculate_sweep(c1) ELSE c1

\* Channel1::write_nr10 .. write_nr14, by the register's low address byte
Channel1Write(c, reg, value) ==
    CASE reg = 16 -> [c EXCEPT !.sweep_period = (value \div 16) % 8,
                               !.sweep_negate = bit(value, 3),
                               !.sweep_shift = value % 8]
      [] reg = 17 -> [c EXCEPT !.duty = value \div 64,
                               !.length_counter = 64 - (value % 64)]
      [] reg = 18 -> write_envelope(c, value)
      [] reg = 19 -> write_freq_lo(c, value)
      [] OTHER -> IF bit(value, 7) THEN Channel1Trigger(write_freq_hi(c, value))
                  ELSE write_freq_hi(c, value)

\* Channel2::trigger
Channel2Trigger(c) ==
    [c EXCEPT !.enabled = c.dac_enabled,
              !.length_counter = IF @ = 0 THEN 64 ELSE @,
              !.timer = (2048 - c.frequency) * 4,
              !.envelope_timer = c.envelope_period,
              !.volume = c.volume_initial]

\* Channel2::write_nr21 .. write_nr24
Channel2Write(c, reg, value) ==
    CASE reg = 22 -> [c EXCEPT !.duty = value \div 64,
                               !.length_counter = 64 - (value % 64)]
      [] reg = 23 -> write_envelope(c, value)
      [] reg = 24 -> write_freq_lo(c, value)
      [] OTHER -> IF bit(value, 7) THEN Channel2Trigger(write_freq_hi(c, value))
                  ELSE write_freq_hi(c, value)

\* Channel3::trigger
Channel3Trigger(c) ==
    [c EXCEPT !.enabled = c.dac_enabled,
              !.length_counter = IF @ = 0 THEN 256 ELSE @,
              !.timer = (2048 - c.frequency) * 2,
              !.wave_position = 0]

\* Channel3::write_nr30 .. write_nr34
Channel3Write(c, reg, value) ==
    CASE reg = 26 -> [c EXCEPT !.dac_enabled = bit(value, 7),
                               !.enabled = IF bit(value, 7) THEN @ ELSE FALSE]
      [] reg = 27 -> [c EXCEPT !.length_counter = 256 - value]
      [] reg = 28 -> [c EXCEPT !.volume_code = (value \div 32) % 4]
      [] reg = 29 -> write_freq_lo(c, value)
      [] OTHER -> IF bit(value, 7) THEN Channel3Trigger(write_freq_hi(c, value))
                  ELSE write_freq_hi(c, value)

\* Channel3::write_wave_ram
write_wave_ram(c, address, value) == [c EXCEPT !.wave_ram[address - 65328] = value]

\* Channel4::get_timer_period, the shift on a 16-bit word
get_timer_period(c) ==
    ((IF c.divisor_code = 0 THEN 8 ELSE c.divisor_code * 16) * Pow2(c.clock_shift)) % 65536

\* Channel4::trigger
Channel4Trigger(c) ==
    [c EXCEPT !.enabled = c.dac_enabled,
              !.length_counter = IF @ = 0 THEN 64 ELSE @,
              !.timer = get_timer_period(c),
              !.envelope_timer = c.envelope_period,
              !.volume = c.volume_initial,
              !.lfsr = 32767]

\* Channel4::write_nr41 .. write_nr44
Channel4Write(c, reg, value) ==
    CASE reg = 32 -> [c EXCEPT !.length_counter = 64 - (value % 64)]
      [] reg = 33 -> write_envelope(c, value)
      [] reg = 34 -> [c EXCEPT !.clock_shift = value \div 16,
                               !.width_mode = bit(value, 3),
                               !.divisor_code = value % 8]
      [] OTHER -> LET c1 == [c EXCEPT !.length_enabled = bit(value, 6)]
                  IN  IF bit(value, 7) THEN Channel4Trigger(c1) ELSE c1

\* Channel1::tick and Channel2::tick: the frequency timer and the duty step
Channel1Tick(c) ==
    LET t == IF c.timer > 0 THEN c.timer - 1 ELSE c.timer
    IN  IF t = 0
        THEN [c EXCEPT !.timer = (2048 - c.frequency) * 4,
                       !.duty_position = (c.duty_position + 1) % 8]
        ELSE [c EXCEPT !.timer = t]

\* Channel3::tick
Channel3Tick(c) ==
    LET t == IF c.timer > 0 THEN c.timer - 1 ELSE c.timer
    IN  IF t = 0
        THEN [c EXCEPT !.timer = (2048 - c.frequency) * 2,
                       !.wave_position = (c.wave_position + 1) % 32]
        ELSE [c EXCEPT !.timer = t]

\* a faulty shift register step: the feedback bit enters at bit 13
lfsr_step_low_tap(c) ==
    LET xor_result == ((c.lfsr % 2) + ((c.lfsr \div 2) % 2)) % 2
        s == c.lfsr \div 2
    IN  s - BitVal(s, 13) * 8192 + xor_result * 8192

\* the shift register step of Channel4::tick on a 16-bit word: bit 0 xor
\* bit 1 is or-ed in at bit 14, and also replaces bit 6 in width mode
lfsr_step(c) ==
    LET xor_result == ((c.lfsr % 2) + ((c.lfsr \div 2) % 2)) % 2
        s == c.lfsr \div 2
        shifted == IF bit(s, 14) THEN s ELSE s + xor_result * 16384
    IN  IF c.width_mode
        THEN shifted - BitVal(shifted, 6) * 64 + xor_result * 64
        ELSE shifted

\* Channel4::tick
Channel4Tick(c) ==
    LET t == IF c.timer > 0 THEN c.timer - 1 ELSE c.timer
    IN  IF t = 0
        THEN [c EXCEPT !.timer = get_timer_period(c), !.lfsr = lfsr_step(c)]
        ELSE [c EXCEPT !.timer = t]

\* tick_length of the four channels
tick_length(c) ==
    IF c.length_enabled /\ c.length_counter > 0
    THEN [c EXCEPT !.length_counter = c.length_counter - 1,
                   !.enabled = IF c.length_counter - 1 = 0 THEN FALSE ELSE @]
    ELSE c

\* tick_envelope of channels 1, 2 and 4
tick_envelope(c) ==
    IF c.envelope_period = 0 THEN c
    ELSE LET t == IF c.envelope_timer > 0 THEN c.envelope_timer - 1
                  ELSE c.envelope_timer
         IN  IF t = 0
             THEN [c EXCEPT !.envelope_timer = c.envelope_period,
                            !.volume = IF c.envelope_add /\ c.volume < 15 THEN @ + 1
                                       ELSE IF ~c.envelope_add /\ c.volume > 0
                                       THEN @ - 1 ELSE @]
             ELSE [c EXCEPT !.envelope_timer = t]

\* the frequency Channel1::calculate_sweep returns
sweep_frequency(c) ==
    LET delta == c.sweep_shadow \div Pow2(c.sweep_shift)
    IN  IF c.sweep_negate THEN (c.sweep_shadow - delta + 65536) % 65536
        ELSE (c.sweep_shadow + delta) % 65536

\* Channel1::tick_sweep
tick_sweep(c) ==
    LET t == IF c.sweep_timer > 0 THEN c.sweep_timer - 1 ELSE c.sweep_timer
    IN  IF t # 0 THEN [c EXCEPT !.sweep_timer = t]
        ELSE LET c1 == [c EXCEPT !.sweep_timer = IF c.sweep_period > 0
                                                 THEN c.sweep_period ELSE 8]
             IN  IF c1.sweep_enabled /\ c1.sweep_period > 0
                 THEN LET new_freq == sweep_frequency(c1)
                          c2 == calculate_sweep(c1)
                      IN  IF new_freq <= 2047 /\ c2.sweep_shift > 0
                          THEN calculate_sweep([c2 EXCEPT !.frequency = new_freq,
                                                          !.sweep_shadow = new_freq])
                          ELSE c2
                 ELSE c1

\* Apu::new
ApuNew ==
    [ch1 |-> Channel1New, ch2 |-> Channel2New, ch3 |-> Channel3New,
     ch4 |-> Channel4New, nr50 |-> 119, nr51 |-> 243, nr52 |-> 241, enabled |-> TRUE]

\* the register arms of Apu::write, without the power gate
ApuWriteUngated(a, address, value) ==
    LET reg == address - 65280
    IN  CASE reg \in 16 .. 20 -> [a EXCEPT !.ch1 = Channel1Write(a.ch1, reg, value)]
          [] reg \in 22 .. 25 -> [a EXCEPT !.ch2 = Channel2Write(a.ch2, reg, value)]
          [] reg \in 26 .. 30 -> [a EXCEPT !.ch3 = Channel3Write(a.ch3, reg, value)]
          [] reg \in 48 .. 63 -> [a EXCEPT !.ch3 = write_wave_ram(a.ch3, address, value)]
          [] reg \in 32 .. 35 -> [a EXCEPT !.ch4 = Channel4Write(a.ch4, reg, value)]
          [] reg = 36 -> [a EXCEPT !.nr50 = value]
          [] reg = 37 -> [a EXCEPT !.nr51 = value]
          [] reg = 38 ->
               LET a1 == [a EXCEPT !.enabled = bit(value, 7),
                                   !.nr52 = (value \div 128) * 128]
               IN  IF a.enabled /\ ~a1.enabled
                   THEN [a1 EXCEPT !.ch1 = Channel1New, !.ch2 = Channel2New,
                                   !.ch3 = Channel3New, !.ch4 = Channel4New,
                                   !.nr50 = 0, !.nr51 = 0]
                   ELSE a1
          [] OTHER -> a

\* Apu::write
ApuWrite(a, address, value) ==
    IF ~a.enabled /\ address # 65318 /\ address \notin 65328 .. 65343 THEN a
    ELSE ApuWriteUngated(a, address, value)

FRAME_SEQUENCER_RATE == 8192

\* Apu::new with the frame sequencer's timer and step
ApuSeqNew == [frame_sequencer_timer |-> 0, frame_sequencer_step |-> 0] @@ ApuNew

\* a faulty sequencer: the envelopes are clocked at step 5
SequencerArmEarlyEnvelope(step) ==
    CASE step \in {0, 4} -> "length"
      [] step \in {2, 6} -> "length+sweep"
      [] step = 5 -> "envelope"
      [] OTHER -> "none"

\* what a firing at a step applies to the channels, by the names of
\* tick_frame_sequencer's arms
SequencerArm(step) ==
    CASE step \in {0, 4} -> "length"
      [] step \in {2, 6} -> "length+sweep"
      [] step = 7 -> "envelope"
      [] OTHER -> "none"

\* Apu::tick_frame_sequencer
tick_frame_sequencer(a) ==
    LET arm == SequencerArm(a.frame_sequencer_step)
        a1 == CASE arm = "length" ->
                     [a EXCEPT !.ch1 = tick_length(a.ch1), !.ch2 = tick_length(a.ch2),
                               !.ch3 = tick_length(a.ch3), !.ch4 = tick_length(a.ch4)]
                [] arm = "length+sweep" ->
                     [a EXCEPT !.ch1 = tick_sweep(tick_length(a.ch1)),
                               !.ch2 = tick_length(a.ch2),
                               !.ch3 = tick_length(a.ch3), !.ch4 = tick_length(a.ch4)]
                [] arm = "envelope" ->
                     [a EXCEPT !.ch1 = tick_envelope(a.ch1),
                               !.ch2 = tick_envelope(a.ch2),
                               !.ch4 = tick_envelope(a.ch4)]
                [] OTHER -> a
    IN  [a1 EXCEPT !.frame_sequencer_step = (a.frame_sequencer_step + 1) % 8]

\* Apu::tick, one T-cycle (sample generation writes only the audio buffer)
ApuTick(a) ==
    IF ~a.enabled THEN a
    ELSE LET a1 == IF a.frame_sequencer_timer + 1 >= FRAME_SEQUENCER_RATE
                   THEN tick_frame_sequencer([a EXCEPT !.frame_sequencer_timer = 0])
                   ELSE [a EXCEPT !.frame_sequencer_timer = a.frame_sequencer_timer + 1]
         IN  [a1 EXCEPT !.ch1 = Channel1Tick(a1.ch1), !.ch2 = Channel1Tick(a1.ch2),
                        !.ch3 = Channel3Tick(a1.ch3), !.ch4 = Channel4Tick(a1.ch4)]

(***************************************************************************)
(* Construction: the component states after Emulator::new.                 *)
(***************************************************************************)
\* I/O backing-store indices the driver mirrors into the modelled components
IoRegs == {0, 4, 5, 6, 7, 64, 65, 68, 69, 70, 74, 75}

\* the window of high RAM that the stack of a bounded run can reach
StackAddrs == 65518 .. 65534

\* Cpu::new then Cpu::init
CpuInit ==
    [pc |-> 256, sp |-> 65534, a |-> 1, f |-> 176, b |-> 0, c |-> 19, d |-> 0,
     e |-> 216, h |-> 1, l |-> 77, halted |-> FALSE, ime |-> FALSE,
     enabling_ime |-> FALSE, ie_register |-> 0, int_flags |-> 0,
     cur_opcode |-> 0, pending_m_cycles |-> 0]

\* Bus::new then the register seeding of Emulator::new
BusInit ==
    [ie_register |-> 0, int_flags |-> 0,
     io_regs |-> [i \in IoRegs |-> CASE i = 64 -> LcdNew.lcdc
                                     [] i = 65 -> LcdNew.stat
                                     [] OTHER -> 0],
     io_written |-> {},
     hram |-> [x \in StackAddrs |-> 0],
     dma_active |-> FALSE]

\* Gamepad::new
GamepadNew == [buttons |-> {}, selection |-> 48, interrupt_requested |-> FALSE]

\* EmulatorContext::default
CtxInit == [paused |-> FALSE, running |-> TRUE, die |-> FALSE, ticks |-> 0]

Constructed ==
    /\ cpu = CpuInit
    /\ bus = BusInit
    /\ timer = TimerNew
    /\ dma = DmaNew
    /\ lcd = LcdNew
    /\ ppu = PpuNew
    /\ gamepad = GamepadNew
    /\ ctx = CtxInit
    /\ apu = ApuNew

\* Cpu::request_interrupt with the bit of the source
request_interrupt(c, b) == [c EXCEPT !.int_flags = Or8(c.int_flags, b)]

(***************************************************************************)
(* SpecTimer: the timer unit driven through Timer::tick, Timer::write and  *)
(* Timer::clear_interrupt.  The counter starts at the construction value   *)
(* or at a value just below a falling edge of one of the four tap bits     *)
(* (every 16-bit value is reached by ticking).                             *)
(***************************************************************************)
MaxTimerTicks == 4

DivSeeds == {43980, 14, 62, 254, 1022, 65534}
TimaVals == {0, 255}
TmaVals == {0, 66}
TacVals == {0, 4, 5, 6, 7}
DivWriteVals == {0, 66}

InitTimer ==
    /\ cpu = CpuInit /\ bus = BusInit /\ dma = DmaNew /\ lcd = LcdNew
    /\ ppu = PpuNew /\ gamepad = GamepadNew /\ ctx = CtxInit
    /\ apu = ApuNew
    /\ \E d \in DivSeeds : timer = [TimerNew EXCEPT !.div = d]
    /\ last = [kind |-> "init", addr |-> 0, n |-> 0, pre |-> timer]

\* one T-cycle of the timer
TimerTickStep ==
    /\ last.n < MaxTimerTicks
    /\ timer' = TimerTick(timer)
    /\ last' = [kind |-> "tick", addr |-> 0, n |-> last.n + 1, pre |-> timer]
    /\ UNCHANGED <<apu, cpu, bus, dma, lcd, ppu, gamepad, ctx>>

\* a register write reaching Timer::write
TimerWriteStep ==
    /\ \E address \in 65284 .. 65287 :
         \E value \in (CASE address = 65284 -> DivWriteVals
                         [] address = 65285 -> TimaVals
                         [] address = 65286 -> TmaVals
                         [] OTHER -> TacVals) :
            /\ timer' = TimerWrite(timer, address, value)
            /\ last' = [kind |-> "write", addr |-> address, n |-> last.n, pre |-> timer]
    /\ UNCHANGED <<apu, cpu, bus, dma, lcd, ppu, gamepad, ctx>>

\* the driver takes the request: Cpu::request_interrupt(Timer), clear_interrupt
TimerClearStep ==
    /\ timer.interrupt_requested
    /\ cpu' = request_interrupt(cpu, 4)
    /\ timer' = TimerClearInterrupt(timer)
    /\ last' = [kind |-> "clear", addr |-> 0, n |-> last.n, pre |-> timer]
    /\ UNCHANGED <<apu, bus, dma, lcd, ppu, gamepad, ctx>>

NextTimer == TimerTickStep \/ TimerWriteStep \/ TimerClearStep

SpecTimer == InitTimer /\ [][NextTimer]_vars

\* the value whose falling edge clocks TIMA: TAC bit 2 AND the tapped bit
TimerSignal(t) == IF timer_enabled(t) /\ bit(t.div, TapBit(timer_frequency(t))) THEN 1 ELSE 0

\* the last operation incremented TIMA (wrapping to TMA at 0xFF)
TimaIncremented ==
    /\ timer.tima = (IF last.pre.tima = 255 THEN last.pre.tma ELSE last.pre.tima + 1)
    /\ timer.interrupt_requested = (last.pre.interrupt_requested \/ last.pre.tima = 255)

\* C6: across every tick and every write to TAC, TIMA is incremented by the
\* operation exactly when (TAC bit 2 AND the tapped counter bit) goes from 1
\* to 0 in it.
C6_TimaClockedByFallingEdge ==
    (last.kind = "tick" \/ (last.kind = "write" /\ last.addr = 65287)) =>
        IF TimerSignal(last.pre) = 1 /\ TimerSignal(timer) = 0
        THEN TimaIncremented
        ELSE /\ timer.tima = last.pre.tima
             /\ timer.interrupt_requested = last.pre.interrupt_requested

\* C7: a TIMA increment on a tick at TIMA = 0xFF loads TMA and raises the
\* request on that tick; from a value below 0xFF it adds 1 and raises nothing.
C7_OverflowReloadsTma ==
    (last.kind = "tick" /\ TimerSignal(last.pre) = 1 /\ TimerSignal(timer) = 0) =>
        IF last.pre.tima = 255
        THEN timer.tima = last.pre.tma /\ timer.interrupt_requested
        ELSE /\ timer.tima = last.pre.tima + 1
             /\ timer.interrupt_requested = last.pre.interrupt_requested

\* an overflowing tick with a non-zero TMA has just happened
C7_Witness ==
    /\ last.kind = "tick"
    /\ TimerSignal(last.pre) = 1 /\ TimerSignal(timer) = 0
    /\ last.pre.tima = 255 /\ last.pre.tma = 66 /\ ~last.pre.interrupt_requested
    /\ timer.tima = 66 /\ timer.interrupt_requested

\* C9: with TAC = 0b101, TIMA = 0 and counter bit 3 set, a write to DIV zeroes
\* the counter and leaves TIMA = 1.
C9_DivWriteClocksTima ==
    (/\ last.kind = "write" /\ last.addr = 65284
     /\ last.pre.tac = 5 /\ last.pre.tima = 0 /\ bit(last.pre.div, 3)) =>
        (timer.div = 0 /\ timer.tima = 1)

(***************************************************************************)
(* SpecDma: the DMA engine driven through Dma::start and Dma::tick.        *)
(* last.since counts the ticks since the last start (or construction).     *)
(***************************************************************************)
MaxDmaIdle == 2

PageVals == {0, 192, 255}

InitDma ==
    /\ Constructed
    /\ last = [kind |-> "init", since |-> 0, started |-> FALSE, xfer |-> <<>>]

\* a start with page p
DmaStartStep ==
    /\ \E p \in PageVals : dma' = DmaStart(dma, p)
    /\ last' = [kind |-> "start", since |-> 0, started |-> TRUE, xfer |-> <<>>]
    /\ UNCHANGED <<apu, cpu, bus, timer, lcd, ppu, gamepad, ctx>>

\* one T-cycle of the engine
DmaTickStep ==
    /\ last.since < 162 + MaxDmaIdle
    /\ dma' = DmaTick(dma).dma
    /\ last' = [last EXCEPT !.kind = "tick", !.since = last.since + 1,
                            !.xfer = DmaTick(dma).xfer]
    /\ UNCHANGED <<apu, cpu, bus, timer, lcd, ppu, gamepad, ctx>>

NextDma == DmaStartStep \/ DmaTickStep

SpecDma == InitDma /\ [][NextDma]_vars

\* C10: after a start with page p the first 2 ticks transfer nothing, tick
\* 3 + i transfers byte i from (p << 8) | i to 0xFE00 + i for i = 0..159, the
\* engine goes inactive on the tick of byte 159, and later ticks transfer
\* nothing.
C10_DmaSchedule ==
    (last.kind = "tick" /\ last.started) =>
        LET k == last.since
            i == k - 3
        IN  CASE k <= 2 -> last.xfer = <<>> /\ dma.active
              [] k <= 162 -> /\ last.xfer = <<dma.value * 256 + i, 65024 + i>>
                             /\ dma.active = (i < 159)
              [] OTHER -> last.xfer = <<>> /\ ~dma.active

\* the tick that moves byte 159 of page 0xC0 and ends the transfer
C10_Witness ==
    /\ last.kind = "tick" /\ last.started /\ last.since = 162
    /\ dma.value = 192
    /\ last.xfer = <<49311, 65183>>
    /\ ~dma.active

(***************************************************************************)
(* SpecPpu: the PPU/LCD pair driven as Emulator::tick_components drives    *)
(* it: one Ppu::tick per T-cycle, each raised flag turned into a CPU       *)
(* request and cleared before the next tick, and LCDC rewritten from the   *)
(* bus between steps.  last.steady says the LCD has been enabled at every  *)
(* moment since construction.                                              *)
(***************************************************************************)
MaxFrames == 2

LcdcVals == {145, 17}

PpuView == [ly |-> lcd.ly, mode |-> mode(lcd), line_ticks |-> ppu.line_ticks,
            on |-> lcd_enabled(lcd)]

InitPpu ==
    /\ Constructed
    /\ last = [kind |-> "init", steady |-> TRUE, pre |-> PpuView]

\* one T-cycle of the PPU
PpuTickStep ==
    /\ ~ppu.vblank_interrupt /\ ~lcd.stat_interrupt
    /\ ppu.current_frame < MaxFrames
    /\ ppu' = PpuTick(ppu, lcd).ppu
    /\ lcd' = PpuTick(ppu, lcd).lcd
    /\ last' = [last EXCEPT !.kind = "tick", !.pre = PpuView]
    /\ UNCHANGED <<apu, cpu, bus, timer, dma, gamepad, ctx>>

\* the driver takes the raised flags: VBlank is bit 0, LCD STAT bit 1
PpuRouteStep ==
    /\ ppu.vblank_interrupt \/ lcd.stat_interrupt
    /\ cpu' = LET c1 == IF ppu.vblank_interrupt THEN request_interrupt(cpu, 1) ELSE cpu
              IN  IF lcd.stat_interrupt THEN request_interrupt(c1, 2) ELSE c1
    /\ ppu' = clear_vblank_interrupt(ppu)
    /\ lcd' = clear_stat_interrupt(lcd)
    /\ last' = [last EXCEPT !.kind = "route", !.pre = PpuView]
    /\ UNCHANGED <<apu, bus, timer, dma, gamepad, ctx>>

\* LCDC rewritten from the bus (Emulator::sync_lcd_from_bus)
LcdcWriteStep ==
    /\ \E value \in LcdcVals :
          /\ lcd' = [lcd EXCEPT !.lcdc = value]
          /\ last' = [kind |-> "write", steady |-> last.steady /\ bit(value, 7),
                      pre |-> PpuView]
    /\ UNCHANGED <<apu, cpu, bus, timer, dma, ppu, gamepad, ctx>>

NextPpu == PpuTickStep \/ PpuRouteStep \/ LcdcWriteStep

SpecPpu == InitPpu /\ [][NextPpu]_vars

\* C4: with the LCD enabled, on lines 0..143 the mode is 2 before the 80th
\* tick, 3 from the 80th to the 252nd and 0 from the 252nd to the 456th; the
\* 456th tick zeroes the line tick counter, adds 1 to LY and enters mode 1
\* with the VBlank request exactly when the new LY is 144, else mode 2.
C4_VisibleLineSchedule ==
    /\ (lcd_enabled(lcd) /\ lcd.ly \in 0 .. 143) =>
          mode(lcd) = (IF ppu.line_ticks < 80 THEN 2
                       ELSE IF ppu.line_ticks < 252 THEN 3 ELSE 0)
    /\ (/\ last.kind = "tick" /\ last.pre.on
        /\ last.pre.ly \in 0 .. 143 /\ last.pre.line_ticks = 455) =>
          /\ ppu.line_ticks = 0
          /\ lcd.ly = last.pre.ly + 1
          /\ IF lcd.ly = 144 THEN mode(lcd) = 1 /\ ppu.vblank_interrupt
                             ELSE mode(lcd) = 2 /\ ~ppu.vblank_interrupt

\* C5: with the LCD enabled throughout, the mode is 1 while LY is 144..153,
\* and the tick that ends line 153 sets LY to 0 and the mode to 2.
C5_VBlankEndsInNewFrame ==
    last.steady =>
        /\ lcd.ly \in 144 .. 153 => mode(lcd) = 1
        /\ (/\ last.kind = "tick"
            /\ last.pre.ly = 153 /\ last.pre.line_ticks = 455) =>
              (lcd.ly = 0 /\ mode(lcd) = 2 /\ ppu.line_ticks = 0)

\* C25: the LCDC write that sets bit 7 again after it was clear leaves the
\* PPU in mode 2 with LY = 0 and the scanline tick count at 0.
C25_ReenableRestartsFrame ==
    (last.kind = "write" /\ ~last.pre.on /\ lcd_enabled(lcd)) =>
        (mode(lcd) = 2 /\ lcd.ly = 0 /\ ppu.line_ticks = 0)

\* C30: with the LCD enabled, after a PPU tick the mode is 1 exactly when LY
\* is in 144..153.
C30_VBlankModeIffVBlankLines ==
    (last.kind = "tick" /\ lcd_enabled(lcd)) =>
        (mode(lcd) = 1 <=> lcd.ly \in 144 .. 153)

(***************************************************************************)
(* Bus (src/bus.rs) as far as the driver model needs it: IF, IE, the I/O   *)
(* backing store, and the top of high RAM where the stack lives.  The      *)
(* cartridge is an input: every fetch draws its instruction, and writes to *)
(* the ROM area of a ROM-only cartridge are dropped.                       *)
(***************************************************************************)
\* I/O registers whose writes the driver takes from the "written" set
WatchedRegs == {70}

\* the bus marks an I/O register as written; the driver takes the mark
mark_io_written(b, i) ==
    IF i \in WatchedRegs THEN [b EXCEPT !.io_written = @ \cup {i}] ELSE b

io_written(b, i) == i \in b.io_written

take_io_written(b, i) == [b EXCEPT !.io_written = @ \ {i}]

\* the bus's dirty flags for VRAM and OAM, carried by a bus that has its
\* video memories: a stored write sets the flag
mark_vram_dirty(b) ==
    IF "vram_dirty" \in DOMAIN b THEN [b EXCEPT !.vram_dirty = TRUE] ELSE b

mark_oam_dirty(b) ==
    IF "oam_dirty" \in DOMAIN b THEN [b EXCEPT !.oam_dirty = TRUE] ELSE b

\* the VRAM offsets that carry state: the first and the last byte
VramCells == {0, 8191}

\* Bus::new's VRAM, all zero
VramNew == [o \in VramCells |-> 0]

\* the VRAM arms of Bus::read and Bus::write: cells outside the modelled
\* ones read as the zero they were constructed with
vram_read(b, address) ==
    IF "vram" \in DOMAIN b /\ address - 32768 \in VramCells
    THEN b.vram[address - 32768] ELSE 0

vram_write(b, address, value) ==
    IF "vram" \in DOMAIN b /\ address - 32768 \in VramCells
    THEN mark_vram_dirty([b EXCEPT !.vram[address - 32768] = value])
    ELSE mark_vram_dirty(b)

\* the work-RAM offsets and OAM indices that carry state where the memory
\* contents matter: the first 160 bytes (the source of a DMA from page 0xC0)
\* and the cells at the edges of the echoed part
WramCells == (0 .. 159) \cup {7679, 7680, 8191}
OamCells == 0 .. 159

\* Ram::new's work RAM and Bus::new's OAM, all zero
WramNew == [o \in WramCells |-> 0]
OamNew == [i \in OamCells |-> 0]

\* Ram::wram_read, Ram::wram_write (WRAM_SIZE is 0x2000)
wram_read(w, address) ==
    LET offset == (address + 65536 - 49152) % 65536
    IN  IF offset >= 8192 THEN 255 ELSE w[offset]

wram_write(w, address, value) ==
    LET offset == (address + 65536 - 49152) % 65536
    IN  IF offset < 8192 THEN [w EXCEPT ![offset] = value] ELSE w

\* a faulty echo write: the address is used as it is
echo_write_raw(b, address, value) ==
    [b EXCEPT !.wram = wram_write(b.wram, address, value)]

\* the echo arm of Bus::write: 0xE000-0xFDFF mirrors work RAM
echo_write(b, address, value) ==
    [b EXCEPT !.wram = wram_write(b.wram, address - 8192, value)]

\* a faulty OAM write: stored whatever the DMA flag says
oam_write_always(b, address, value) ==
    [b EXCEPT !.oam[address - 65024] = value]

\* the OAM arms of Bus::read and Bus::write
oam_read(b, address) == IF b.dma_active THEN 255 ELSE b.oam[address - 65024]

oam_write(b, address, value) ==
    IF ~b.dma_active THEN mark_oam_dirty([b EXCEPT !.oam[address - 65024] = value])
    ELSE b

(***************************************************************************)
(* The cartridge (src/cart.rs): a record [cart_type, rom_banks, ram_banks, *)
(* ram_enabled, rom_bank, ram_bank, banking_mode, ram, need_save] for a    *)
(* ROM file of rom_banks * 16 KiB whose header declares ram_banks * 8 KiB  *)
(* of cartridge RAM.  The bus owns it as its field cart; a bus without the *)
(* field has no cartridge.                                                 *)
(***************************************************************************)
\* the byte of the ROM file at an offset: every bank differs from every
\* other at each offset within the bank (7 is odd, bank < 256)
RomByte(offset) == ((offset \div 16384) * 7 + (offset % 16384) * 3 + 1) % 256

\* self.rom.get(addr).copied().unwrap_or(0xFF)
rom_get(cart, addr) == IF addr < cart.rom_banks * 16384 THEN RomByte(addr) ELSE 255

\* Cartridge::is_mbc1, is_mbc3, is_mbc5
is_mbc1(cart) == cart.cart_type \in 1 .. 3
is_mbc3(cart) == cart.cart_type \in 15 .. 19
is_mbc5(cart) == cart.cart_type \in 25 .. 30

\* Cartridge::rom_bank_count
rom_bank_count(cart) == IF cart.rom_banks > 1 THEN cart.rom_banks ELSE 1

\* Cartridge::mbc1_rom0_bank
mbc1_rom0_bank(cart) ==
    IF cart.banking_mode = 1 THEN ((cart.ram_bank % 4) * 32) % rom_bank_count(cart) ELSE 0

\* a faulty bank selection: no substitution for bank 0
mbc1_romx_bank_raw(cart) ==
    ((cart.rom_bank % 32)
       + (IF cart.banking_mode = 0 THEN (cart.ram_bank % 4) * 32 ELSE 0))
      % rom_bank_count(cart)

\* Cartridge::mbc1_romx_bank
mbc1_romx_bank(cart) ==
    LET composed == (cart.rom_bank % 32)
                      + (IF cart.banking_mode = 0 THEN (cart.ram_bank % 4) * 32 ELSE 0)
        nonzero == IF composed % 32 = 0 THEN composed + 1 ELSE composed
        bank == nonzero % rom_bank_count(cart)
    IN  IF bank = 0 /\ rom_bank_count(cart) > 1 THEN 1 ELSE bank

\* the cartridge RAM offsets that carry state: the first and the last byte
\* of every 8 KiB bank
RamCells(ram_banks) == {bank * 8192 + o : bank \in 0 .. (ram_banks - 1), o \in {0, 8191}}

\* Cartridge::ram_bank_count
ram_bank_count(cart) == IF cart.ram_banks > 1 THEN cart.ram_banks ELSE 1

\* the offset in the cartridge RAM that an address of 0xA000-0xBFFF selects
ram_offset(cart, address) ==
    LET bank == IF is_mbc3(cart) THEN cart.ram_bank % 4
                ELSE IF cart.banking_mode = 1 THEN cart.ram_bank ELSE 0
    IN  (bank % ram_bank_count(cart)) * 8192 + (address - 40960)

\* Cartridge::load: a freshly loaded cartridge without a save file
CartLoad(type, banks, ram_banks) ==
    [cart_type |-> type, rom_banks |-> banks, ram_banks |-> ram_banks,
     ram_enabled |-> FALSE, rom_bank |-> 1, ram_bank |-> 0, banking_mode |-> 0,
     ram |-> [o \in RamCells(ram_banks) |-> 0], need_save |-> FALSE]

\* Cartridge::read
cart_read(cart, address) ==
    CASE address \in 0 .. 16383 ->
            IF is_mbc1(cart) THEN rom_get(cart, mbc1_rom0_bank(cart) * 16384 + address)
            ELSE rom_get(cart, address)
      [] address \in 16384 .. 32767 ->
            LET plain == cart.rom_bank % rom_bank_count(cart)
                bank == IF is_mbc1(cart) THEN mbc1_romx_bank(cart)
                        ELSE IF plain = 0 /\ rom_bank_count(cart) > 1 THEN 1 ELSE plain
            IN  rom_get(cart, bank * 16384 + (address - 16384))
      [] address \in 40960 .. 49151 ->
            IF ~cart.ram_enabled \/ cart.ram_banks = 0 THEN 255
            ELSE IF ram_offset(cart, address) \in DOMAIN cart.ram
                 THEN cart.ram[ram_offset(cart, address)]
                 ELSE IF ram_offset(cart, address) < cart.ram_banks * 8192 THEN 0 ELSE 255
      [] OTHER -> 255

\* a faulty write: cartridge RAM is written whether enabled or not
cart_ram_write_always(cart, address, value) ==
    IF cart.ram_banks = 0 THEN cart
    ELSE IF ram_offset(cart, address) \in DOMAIN cart.ram
         THEN [cart EXCEPT !.ram[ram_offset(cart, address)] = value, !.need_save = TRUE]
         ELSE cart

\* the cartridge RAM arm of Cartridge::write
cart_ram_write(cart, address, value) ==
    IF ~cart.ram_enabled \/ cart.ram_banks = 0 THEN cart
    ELSE IF ram_offset(cart, address) \in DOMAIN cart.ram
         THEN [cart EXCEPT !.ram[ram_offset(cart, address)] = value, !.need_save = TRUE]
         ELSE IF ram_offset(cart, address) < cart.ram_banks * 8192
              THEN [cart EXCEPT !.need_save = TRUE] ELSE cart

\* Cartridge::write
cart_write(cart, address, value) ==
    CASE address \in 0 .. 8191 ->
            IF is_mbc1(cart) \/ is_mbc3(cart) \/ is_mbc5(cart)
            THEN [cart EXCEPT !.ram_enabled = (value % 16 = 10)] ELSE cart
      [] address \in 8192 .. 16383 ->
            IF is_mbc1(cart)
            THEN [cart EXCEPT !.rom_bank = IF value % 32 = 0 THEN 1 ELSE value % 32]
            ELSE IF is_mbc3(cart)
            THEN [cart EXCEPT !.rom_bank = IF value % 128 = 0 THEN 1 ELSE value % 128]
            ELSE IF is_mbc5(cart) THEN [cart EXCEPT !.rom_bank = value] ELSE cart
      [] address \in 16384 .. 24575 ->
            IF is_mbc1(cart) THEN [cart EXCEPT !.ram_bank = value % 4]
            ELSE IF is_mbc3(cart) THEN [cart EXCEPT !.ram_bank = value % 16] ELSE cart
      [] address \in 24576 .. 32767 ->
            IF is_mbc1(cart) THEN [cart EXCEPT !.banking_mode = value % 2] ELSE cart
      [] address \in 40960 .. 49151 -> cart_ram_write(cart, address, value)
      [] OTHER -> cart

\* Bus::read
BusRead(b, address) ==
    CASE address = 65295 -> Or8(b.int_flags, 224)
      [] address \in 49152 .. 57343 -> wram_read(b.wram, address)
      [] address \in 57344 .. 65023 -> wram_read(b.wram, address - 8192)
      [] address \in 65024 .. 65183 -> oam_read(b, address)
      [] address \in 65280 .. 65407 /\ address # 65295 ->
            IF address - 65280 \in IoRegs THEN b.io_regs[address - 65280] ELSE 0
      [] address \in StackAddrs -> b.hram[address]
      [] address = 65535 -> b.ie_register
      [] address \in 0 .. 32767 \/ address \in 40960 .. 49151 ->
            IF "cart" \in DOMAIN b THEN cart_read(b.cart, address) ELSE 255
      [] address \in 32768 .. 40959 -> vram_read(b, address)
      [] OTHER -> 255

\* Bus::write; an I/O write also marks the register as written
BusWrite(b, address, value) ==
    CASE address = 65295 -> [b EXCEPT !.int_flags = value]
      [] address \in 49152 .. 57343 ->
            [b EXCEPT !.wram = wram_write(b.wram, address, value)]
      [] address \in 57344 .. 65023 -> echo_write(b, address, value)
      [] address \in 65024 .. 65183 -> oam_write(b, address, value)
      [] address \in 65280 .. 65407 /\ address # 65295 ->
            LET i == address - 65280
            IN  mark_io_written(IF i \in IoRegs THEN [b EXCEPT !.io_regs[i] = value]
                                ELSE b, i)
      [] address \in StackAddrs -> [b EXCEPT !.hram[address] = value]
      [] address = 65535 -> [b EXCEPT !.ie_register = value]
      [] address \in 0 .. 32767 \/ address \in 40960 .. 49151 ->
            IF "cart" \in DOMAIN b
            THEN [b EXCEPT !.cart = cart_write(b.cart, address, value)] ELSE b
      [] address \in 32768 .. 40959 -> vram_write(b, address, value)
      [] OTHER -> b

\* Bus::set_dma_active
set_dma_active(b, active) == [b EXCEPT !.dma_active = active]

(***************************************************************************)
(* CPU interrupt logic and the instructions of the model's alphabet        *)
(* (src/cpu/mod.rs, src/cpu/execute.rs, src/cpu/fetch.rs).  A CPU/bus pair *)
(* is [cpu, bus].                                                          *)
(***************************************************************************)
\* Cpu::reset_step_cycles, add_m_cycles
reset_step_cycles(c) == [c EXCEPT !.pending_m_cycles = 0]
add_m_cycles(c, cycles) == [c EXCEPT !.pending_m_cycles = @ + cycles]

\* Cpu::interrupts_pending
interrupts_pending(c) == And8(And8(c.int_flags, c.ie_register), 31) # 0

\* a faulty selection: the highest set bit of mask
HighestSource(mask) ==
    CHOOSE i \in 0 .. 4 : bit(mask, i) /\ \A j \in (i + 1) .. 4 : ~bit(mask, j)

\* the first source, in the order of InterruptType::all, whose bit is in mask
FirstSource(mask) ==
    CHOOSE i \in 0 .. 4 : bit(mask, i) /\ \A j \in 0 .. (i - 1) : ~bit(mask, j)

\* Cpu::get_pending_interrupt: the source's index 0..4 (bit 1 << i, vector
\* 0x40 + 8 i), or -1 for None
get_pending_interrupt(c) ==
    LET pending == And8(And8(c.int_flags, c.ie_register), 31)
    IN  IF pending = 0 THEN -1 ELSE FirstSource(pending)

\* InterruptType::vector
InterruptVector(i) == 64 + 8 * i

\* Cpu::clear_interrupt
clear_interrupt(c, i) == [c EXCEPT !.int_flags = And8(c.int_flags, 255 - Pow2(i))]

\* Cpu::stack_push8, stack_push16 (high byte first)
stack_push8(cb, value) ==
    LET sp1 == (cb.cpu.sp + 65535) % 65536
    IN  [cpu |-> [cb.cpu EXCEPT !.sp = sp1], bus |-> BusWrite(cb.bus, sp1, value)]

stack_push16(cb, value) == stack_push8(stack_push8(cb, value \div 256), value % 256)

\* Cpu::stack_pop16 (low byte first): the pair after the pop and the word
stack_pop16(cb) ==
    LET lo == BusRead(cb.bus, cb.cpu.sp)
        hi == BusRead(cb.bus, (cb.cpu.sp + 1) % 65536)
    IN  [cpu |-> [cb.cpu EXCEPT !.sp = (cb.cpu.sp + 2) % 65536], bus |-> cb.bus,
         value |-> hi * 256 + lo]

\* Cpu::handle_interrupts: the pair after it and whether one was handled
handle_interrupts(cb) ==
    IF ~cb.cpu.ime \/ ~interrupts_pending(cb.cpu)
    THEN [cpu |-> cb.cpu, bus |-> cb.bus, handled |-> FALSE]
    ELSE LET i == get_pending_interrupt(cb.cpu)
             c1 == clear_interrupt([cb.cpu EXCEPT !.ime = FALSE], i)
             pushed == stack_push16([cpu |-> c1, bus |-> cb.bus], cb.cpu.pc)
         IN  [cpu |-> [pushed.cpu EXCEPT !.pc = InterruptVector(i), !.halted = FALSE],
              bus |-> pushed.bus, handled |-> TRUE]

\* a faulty EI: IME set at once
proc_ei_now(c) == [c EXCEPT !.ime = TRUE]

\* proc_ei, proc_di, proc_halt
proc_ei(c) == [c EXCEPT !.enabling_ime = TRUE]

proc_di(c) == [c EXCEPT !.ime = FALSE]

proc_halt(c) == [c EXCEPT !.halted = TRUE]

\* proc_reti
proc_reti(cb) ==
    LET popped == stack_pop16([cpu |-> [cb.cpu EXCEPT !.ime = TRUE], bus |-> cb.bus])
    IN  [cpu |-> add_m_cycles([popped.cpu EXCEPT !.pc = popped.value], 3),
         bus |-> popped.bus]

\* Registers::flag_z, flag_c and set_flags: bit_set on bits 7..4 of F
flag_z(c) == bit(c.f, 7)
flag_c(c) == bit(c.f, 4)

set_flags(c, z, n, h, cy) ==
    [c EXCEPT !.f = bit_set(bit_set(bit_set(bit_set(c.f, 7, z), 6, n), 5, h), 4, cy)]

\* Cpu::check_condition; "" is ConditionType::None
check_condition(c, cond) ==
    CASE cond = "Z" -> flag_z(c)
      [] cond = "NZ" -> ~flag_z(c)
      [] cond = "C" -> flag_c(c)
      [] cond = "NC" -> ~flag_c(c)
      [] OTHER -> TRUE

\* Cpu::read_reg and Cpu::write_reg on the register pairs and on the 8-bit
\* registers (Registers::af, set_af, bc, set_bc, ...)
read_reg(c, reg) ==
    CASE reg = "AF" -> c.a * 256 + c.f
      [] reg = "BC" -> c.b * 256 + c.c
      [] reg = "DE" -> c.d * 256 + c.e
      [] reg = "HL" -> c.h * 256 + c.l
      [] reg = "A" -> c.a
      [] reg = "B" -> c.b
      [] reg = "C" -> c.c
      [] reg = "D" -> c.d
      [] reg = "E" -> c.e
      [] reg = "H" -> c.h
      [] reg = "L" -> c.l
      [] OTHER -> 0

write_reg(c, reg, value) ==
    CASE reg = "AF" -> [c EXCEPT !.a = (value \div 256) % 256,
                                 !.f = (value % 256) - (value % 16)]
      [] reg = "BC" -> [c EXCEPT !.b = (value \div 256) % 256, !.c = value % 256]
      [] reg = "DE" -> [c EXCEPT !.d = (value \div 256) % 256, !.e = value % 256]
      [] reg = "HL" -> [c EXCEPT !.h = (value \div 256) % 256, !.l = value % 256]
      [] reg = "A" -> [c EXCEPT !.a = value % 256]
      [] reg = "B" -> [c EXCEPT !.b = value % 256]
      [] reg = "C" -> [c EXCEPT !.c = value % 256]
      [] reg = "D" -> [c EXCEPT !.d = value % 256]
      [] reg = "E" -> [c EXCEPT !.e = value % 256]
      [] reg = "H" -> [c EXCEPT !.h = value % 256]
      [] reg = "L" -> [c EXCEPT !.l = value % 256]
      [] OTHER -> c

\* proc_sub, proc_sbc, proc_cp with fetched_data = n; the register is A
proc_sub(c, n) ==
    LET val == (c.a + 65536 - n) % 65536
    IN  set_flags(write_reg(c, "A", val), val % 256 = 0, TRUE,
                  (c.a % 16) - (n % 16) < 0, c.a - n < 0)

proc_sbc(c, n) ==
    LET c_flag == IF flag_c(c) THEN 1 ELSE 0
        val == (n + c_flag) % 65536
        diff == (c.a + 65536 - val) % 65536
    IN  set_flags(write_reg(c, "A", diff), diff = 0, TRUE,
                  (c.a % 16) - (n % 16) - c_flag < 0, c.a - n - c_flag < 0)

proc_cp(c, n) ==
    set_flags(c, c.a - n = 0, TRUE, (c.a % 16) - (n % 16) < 0, c.a - n < 0)

\* jump_to_if, proc_jr (the operand byte is a signed offset), proc_jp
jump_to_if(c, addr, cond) ==
    IF check_condition(c, cond) THEN add_m_cycles([c EXCEPT !.pc = addr], 1) ELSE c

proc_jr(c, d8, cond) ==
    jump_to_if(c, (c.pc + (IF d8 >= 128 THEN 65280 + d8 ELSE d8)) % 65536, cond)

proc_jp(c, d16, cond) == jump_to_if(c, d16, cond)

\* proc_call, proc_ret
proc_call(cb, d16, cond) ==
    IF check_condition(cb.cpu, cond)
    THEN LET pushed == stack_push16([cpu |-> add_m_cycles(cb.cpu, 2), bus |-> cb.bus],
                                    cb.cpu.pc)
         IN  [cpu |-> add_m_cycles([pushed.cpu EXCEPT !.pc = d16], 1), bus |-> pushed.bus]
    ELSE cb

proc_ret(cb, cond) ==
    LET c1 == IF cond # "" THEN add_m_cycles(cb.cpu, 1) ELSE cb.cpu
    IN  IF check_condition(c1, cond)
        THEN LET popped == stack_pop16([cpu |-> c1, bus |-> cb.bus])
             IN  [cpu |-> add_m_cycles([popped.cpu EXCEPT !.pc = popped.value], 3),
                  bus |-> popped.bus]
        ELSE [cpu |-> c1, bus |-> cb.bus]

\* a faulty POP: the low byte goes to the low register as it is
proc_pop_raw(cb, reg) ==
    LET popped == stack_pop16(cb)
        c1 == add_m_cycles(popped.cpu, 2)
        hi == popped.value \div 256
        lo == popped.value % 256
    IN  [cpu |-> CASE reg = "AF" -> [c1 EXCEPT !.a = hi, !.f = lo]
                   [] reg = "BC" -> [c1 EXCEPT !.b = hi, !.c = lo]
                   [] reg = "DE" -> [c1 EXCEPT !.d = hi, !.e = lo]
                   [] OTHER -> [c1 EXCEPT !.h = hi, !.l = lo],
         bus |-> popped.bus]

\* proc_pop (POP AF clears the low nibble of F once more), proc_push
proc_pop(cb, reg) ==
    LET popped == stack_pop16(cb)
        c1 == write_reg(add_m_cycles(popped.cpu, 2), reg, popped.value)
    IN  [cpu |-> IF reg = "AF" THEN [c1 EXCEPT !.f = c1.f - (c1.f % 16)] ELSE c1,
         bus |-> popped.bus]

proc_push(cb, reg) ==
    LET pushed == stack_push16(cb, read_reg(cb.cpu, reg))
    IN  [cpu |-> add_m_cycles(pushed.cpu, 3), bus |-> pushed.bus]

\* the register of a CB opcode (CB_INSTRUCTIONS: B, C, D, E, H, L, HL, A)
CbReg(op) == <<"B", "C", "D", "E", "H", "L", "HL", "A">>[(op % 8) + 1]

\* the rotate and shift arm of proc_cb: <<result, carry>>
CbRotate(op, reg_val, cin) ==
    LET bit_idx == (op \div 8) % 8
        hi == reg_val \div 128
        lo == reg_val % 2
    IN  CASE bit_idx = 0 -> <<((reg_val * 2) % 256) + hi, hi # 0>>
          [] bit_idx = 1 -> <<(reg_val \div 2) + lo * 128, lo # 0>>
          [] bit_idx = 2 -> <<((reg_val * 2) % 256) + (IF cin THEN 1 ELSE 0), hi # 0>>
          [] bit_idx = 3 -> <<(reg_val \div 2) + (IF cin THEN 128 ELSE 0), lo # 0>>
          [] bit_idx = 4 -> <<(reg_val * 2) % 256, hi # 0>>
          [] bit_idx = 5 -> <<(reg_val \div 2) + hi * 128, lo # 0>>
          [] bit_idx = 6 -> <<(reg_val \div 16) + ((reg_val % 16) * 16), FALSE>>
          [] OTHER -> <<reg_val \div 2, lo # 0>>

\* write_cb_result
write_cb_result(cb, reg, value) ==
    IF reg = "HL"
    THEN [cpu |-> cb.cpu, bus |-> BusWrite(cb.bus, read_reg(cb.cpu, "HL"), value)]
    ELSE [cpu |-> write_reg(cb.cpu, reg, value), bus |-> cb.bus]

\* proc_cb with fetched_data = op
proc_cb(cb, op) ==
    LET reg == CbReg(op)
        b == (op \div 8) % 8
        reg_val == IF reg = "HL" THEN BusRead(cb.bus, read_reg(cb.cpu, "HL"))
                   ELSE read_reg(cb.cpu, reg)
        bit_op == op \div 64
        c1 == IF reg = "HL" THEN add_m_cycles(cb.cpu, IF bit_op = 1 THEN 1 ELSE 2)
              ELSE cb.cpu
        cb1 == [cpu |-> c1, bus |-> cb.bus]
    IN  CASE bit_op = 1 ->
               [cpu |-> [c1 EXCEPT !.f = bit_set(bit_set(bit_set(c1.f, 7, ~bit(reg_val, b)),
                                                         6, FALSE), 5, TRUE)],
                bus |-> cb.bus]
          [] bit_op = 2 ->
               write_cb_result(cb1, reg, reg_val - (IF bit(reg_val, b) THEN Pow2(b) ELSE 0))
          [] bit_op = 3 ->
               write_cb_result(cb1, reg, reg_val + (IF bit(reg_val, b) THEN 0 ELSE Pow2(b)))
          [] OTHER ->
               LET r == CbRotate(op, reg_val, flag_c(c1))
                   w == write_cb_result(cb1, reg, r[1])
               IN  [cpu |-> set_flags(w.cpu, r[1] = 0, FALSE, FALSE, r[2]), bus |-> w.bus]

\* the instruction alphabet: NOP, EI, DI, HALT, RETI, LD A,d8, LDH (a8),A
D8Vals == {0, 246}
A8Vals == {4, 15, 255}

Instructions ==
    [op : {"NOP", "EI", "DI", "HALT", "RETI"}, arg : {0}]
      \cup [op : {"LD A,d8"}, arg : D8Vals]
      \cup [op : {"LDH (a8),A"}, arg : A8Vals]

\* the alphabet of the CPU specification: the stack, branch, subtract and
\* CB-prefixed instructions; cond is the condition ("" for none) and arg the
\* operand (a register pair's index, a d8, a d16 or the CB opcode)
Conds == {"", "NZ", "Z", "NC", "C"}
Pairs == <<"BC", "DE", "HL", "AF">>
SubVals == {0, 15, 255}
CbOps == {0, 6, 14, 22, 30, 38, 46, 54, 55, 62, 70, 71, 126, 134, 135, 198, 255}

CpuInstructions ==
    [op : {"PUSH", "POP"}, arg : 1 .. 4, cond : {""}]
      \cup [op : {"RET"}, arg : {0}, cond : Conds]
      \cup [op : {"JR"}, arg : {2, 254}, cond : Conds]
      \cup [op : {"JP"}, arg : {336}, cond : {"", "Z", "NC"}]
      \cup [op : {"CALL"}, arg : {336}, cond : {"", "NZ", "C"}]
      \cup [op : {"SUB", "SBC", "CP"}, arg : SubVals, cond : {""}]
      \cup [op : {"CB"}, arg : CbOps, cond : {""}]

\* the opcode byte of an instruction (src/cpu/instructions.rs)
Opcode(inst) ==
    CASE inst.op = "NOP" -> 0
      [] inst.op = "PUSH" -> 197 + 16 * (inst.arg - 1)
      [] inst.op = "POP" -> 193 + 16 * (inst.arg - 1)
      [] inst.op = "RET" ->
            (CASE inst.cond = "NZ" -> 192 [] inst.cond = "Z" -> 200
               [] inst.cond = "NC" -> 208 [] inst.cond = "C" -> 216 [] OTHER -> 201)
      [] inst.op = "JR" ->
            (CASE inst.cond = "NZ" -> 32 [] inst.cond = "Z" -> 40
               [] inst.cond = "NC" -> 48 [] inst.cond = "C" -> 56 [] OTHER -> 24)
      [] inst.op = "JP" ->
            (CASE inst.cond = "NZ" -> 194 [] inst.cond = "Z" -> 202
               [] inst.cond = "NC" -> 210 [] inst.cond = "C" -> 218 [] OTHER -> 195)
      [] inst.op = "CALL" ->
            (CASE inst.cond = "NZ" -> 196 [] inst.cond = "Z" -> 204
               [] inst.cond = "NC" -> 212 [] inst.cond = "C" -> 220 [] OTHER -> 205)
      [] inst.op = "SUB" -> 214
      [] inst.op = "SBC" -> 222
      [] inst.op = "CP" -> 254
      [] inst.op = "CB" -> 203
      [] inst.op = "EI" -> 251
      [] inst.op = "DI" -> 243
      [] inst.op = "HALT" -> 118
      [] inst.op = "RETI" -> 217
      [] inst.op = "LD A,d8" -> 62
      [] OTHER -> 224

\* bytes fetch_instruction and fetch_data consume
InstLength(inst) ==
    CASE inst.op \in {"LD A,d8", "LDH (a8),A", "JR", "SUB", "SBC", "CP", "CB"} -> 2
      [] inst.op \in {"JP", "CALL"} -> 3
      [] OTHER -> 1

\* fetch_instruction, fetch_data, execute for one instruction
Execute(cb, inst) ==
    LET c0 == [cb.cpu EXCEPT !.cur_opcode = Opcode(inst),
                             !.pc = (cb.cpu.pc + InstLength(inst)) % 65536]
    IN  CASE inst.op = "NOP" -> [cpu |-> c0, bus |-> cb.bus]
          [] inst.op = "EI" -> [cpu |-> proc_ei(c0), bus |-> cb.bus]
          [] inst.op = "DI" -> [cpu |-> proc_di(c0), bus |-> cb.bus]
          [] inst.op = "HALT" -> [cpu |-> proc_halt(c0), bus |-> cb.bus]
          [] inst.op = "RETI" -> proc_reti([cpu |-> c0, bus |-> cb.bus])
          [] inst.op = "LD A,d8" -> [cpu |-> [c0 EXCEPT !.a = inst.arg], bus |-> cb.bus]
          [] inst.op = "PUSH" -> proc_push([cpu |-> c0, bus |-> cb.bus], Pairs[inst.arg])
          [] inst.op = "POP" -> proc_pop([cpu |-> c0, bus |-> cb.bus], Pairs[inst.arg])
          [] inst.op = "RET" -> proc_ret([cpu |-> c0, bus |-> cb.bus], inst.cond)
          [] inst.op = "CALL" -> proc_call([cpu |-> c0, bus |-> cb.bus], inst.arg, inst.cond)
          [] inst.op = "JR" -> [cpu |-> proc_jr(c0, inst.arg, inst.cond), bus |-> cb.bus]
          [] inst.op = "JP" -> [cpu |-> proc_jp(c0, inst.arg, inst.cond), bus |-> cb.bus]
          [] inst.op = "SUB" -> [cpu |-> proc_sub(c0, inst.arg), bus |-> cb.bus]
          [] inst.op = "SBC" -> [cpu |-> proc_sbc(c0, inst.arg), bus |-> cb.bus]
          [] inst.op = "CP" -> [cpu |-> proc_cp(c0, inst.arg), bus |-> cb.bus]
          [] inst.op = "CB" -> proc_cb([cpu |-> c0, bus |-> cb.bus], inst.arg)
          [] OTHER -> [cpu |-> add_m_cycles(c0, 1),
                       bus |-> BusWrite(cb.bus, 65280 + inst.arg, c0.a)]

(***************************************************************************)
(* The driver (src/emu.rs).  A machine is the record of all components.    *)
(* The APU stays outside it: the programs of the driver specifications     *)
(* write no APU register.  Pixel and VRAM contents carry no state here.     *)
(***************************************************************************)
Machine ==
    [cpu |-> cpu, bus |-> bus, timer |-> timer, dma |-> dma, lcd |-> lcd,
     ppu |-> ppu, gamepad |-> gamepad, ctx |-> ctx]

\* Gamepad::read, Gamepad::write
GamepadRead(g) ==
    LET keys(sel, names) ==
            IF And8(g.selection, sel) = 0
            THEN (IF names[1] \in g.buttons THEN 8 ELSE 0)
               + (IF names[2] \in g.buttons THEN 4 ELSE 0)
               + (IF names[3] \in g.buttons THEN 2 ELSE 0)
               + (IF names[4] \in g.buttons THEN 1 ELSE 0)
            ELSE 0
        down == Or8(keys(32, <<"Start", "Select", "B", "A">>),
                    keys(16, <<"Down", "Up", "Left", "Right">>))
    IN  Or8(207, g.selection) - down

GamepadWrite(g, value) == [g EXCEPT !.selection = And8(value, 48)]

\* Emulator::sync_lcd_from_bus
sync_lcd_from_bus(m) ==
    [m EXCEPT !.lcd = [m.lcd EXCEPT
        !.lcdc = m.bus.io_regs[64],
        !.stat = (m.lcd.stat % 8) + (m.bus.io_regs[65] - (m.bus.io_regs[65] % 8)),
        !.lyc = m.bus.io_regs[69],
        !.wy = m.bus.io_regs[74],
        !.wx = m.bus.io_regs[75]]]

\* Emulator::sync_timer_from_bus
sync_timer_from_bus(m) ==
    LET bus_div == m.bus.io_regs[4]
        t0 == IF bus_div = 0 /\ TimerRead(m.timer, 65284) # 0
              THEN TimerWrite(m.timer, 65284, 0) ELSE m.timer
        t1 == TimerWrite(t0, 65285, m.bus.io_regs[5])
        t2 == TimerWrite(t1, 65286, m.bus.io_regs[6])
    IN  [m EXCEPT !.timer = TimerWrite(t2, 65287, m.bus.io_regs[7])]

\* Emulator::sync_gamepad_from_bus
sync_gamepad_from_bus(m) == [m EXCEPT !.gamepad = GamepadWrite(m.gamepad, m.bus.io_regs[0])]

\* a faulty check_dma_start: the engine starts but the bus flag is left alone
check_dma_start_engine_only(m) ==
    IF io_written(m.bus, 70)
    THEN [m EXCEPT !.dma = DmaStart(m.dma, m.bus.io_regs[70]),
                   !.bus = take_io_written(m.bus, 70)]
    ELSE m

\* Emulator::check_dma_start, with Bus::take_io_written(0x46)
check_dma_start(m) ==
    IF io_written(m.bus, 70)
    THEN [m EXCEPT !.dma = DmaStart(m.dma, m.bus.io_regs[70]),
                   !.bus = set_dma_active(take_io_written(m.bus, 70), TRUE)]
    ELSE m

\* the four mirrors in the order Emulator::step applies them
SyncFromBus(m) ==
    CHOOSE r \in {check_dma_start(g) :
                    g \in {sync_gamepad_from_bus(t) :
                             t \in {sync_timer_from_bus(l) :
                                      l \in {sync_lcd_from_bus(m)}}}} : TRUE

\* Emulator::sync_lcd_to_bus, sync_timer_to_bus, sync_gamepad_to_bus and the
\* DMA register, at the end of tick_components
SyncToBus(m) ==
    [m EXCEPT !.bus = [m.bus EXCEPT
        !.int_flags = m.cpu.int_flags,
        !.io_regs = [i \in IoRegs |->
            CASE i = 64 -> m.lcd.lcdc
              [] i = 65 -> Or8(m.lcd.stat, 128)
              [] i = 68 -> m.lcd.ly
              [] i = 69 -> m.lcd.lyc
              [] i = 74 -> m.lcd.wy
              [] i = 75 -> m.lcd.wx
              [] i = 4 -> TimerRead(m.timer, 65284)
              [] i = 5 -> TimerRead(m.timer, 65285)
              [] i = 6 -> TimerRead(m.timer, 65286)
              [] i = 7 -> TimerRead(m.timer, 65287)
              [] i = 0 -> GamepadRead(m.gamepad)
              [] OTHER -> m.dma.value]]]

\* a faulty copy: the byte lands one OAM entry further
DmaCopyShifted(m, xfer) ==
    IF xfer = <<>> THEN m
    ELSE LET value == BusRead(m.bus, xfer[1])
             oam_index == (xfer[2] - 65024 + 1) % 160
         IN  [m EXCEPT !.bus.oam[oam_index] = value, !.ppu.oam[oam_index] = value]

\* the DMA arm of the loop of tick_components: the byte Dma::tick asks for
\* is read through the bus and stored in the bus's and the PPU's OAM
DmaCopy(m, xfer) ==
    IF xfer = <<>> THEN m
    ELSE LET value == BusRead(m.bus, xfer[1])
             oam_index == xfer[2] - 65024
         IN  [m EXCEPT !.bus.oam[oam_index] = value, !.ppu.oam[oam_index] = value]

\* one pass of the loop of tick_components: one T-cycle of every component
TickOne(m) ==
    CHOOSE r \in
      {LET c1 == IF t1.interrupt_requested THEN request_interrupt(m.cpu, 4) ELSE m.cpu
           c2 == IF pl.ppu.vblank_interrupt THEN request_interrupt(c1, 1) ELSE c1
           c3 == IF pl.lcd.stat_interrupt THEN request_interrupt(c2, 2) ELSE c2
           m1 == DmaCopy([m EXCEPT !.ctx = [m.ctx EXCEPT !.ticks = @ + 1],
                                   !.timer = TimerClearInterrupt(t1),
                                   !.ppu = clear_vblank_interrupt(pl.ppu),
                                   !.lcd = clear_stat_interrupt(pl.lcd),
                                   !.cpu = c3,
                                   !.dma = d1.dma], d1.xfer)
       IN  IF ~d1.dma.active THEN [m1 EXCEPT !.bus = set_dma_active(m1.bus, FALSE)]
           ELSE m1 :
         t1 \in {TimerTick(m.timer)}, pl \in {PpuTick(m.ppu, m.lcd)},
         d1 \in {DmaTick(m.dma)}} : TRUE

RECURSIVE TickLoop(_, _)
TickLoop(m, cycles) ==
    IF cycles = 0 THEN m
    ELSE CHOOSE r \in {TickLoop(m1, cycles - 1) : m1 \in {TickOne(m)}} : TRUE

\* a faulty head of tick_components: only VRAM is copied
copy_on_dirty_vram_only(m) ==
    IF "vram_dirty" \in DOMAIN m.bus /\ m.bus.vram_dirty
    THEN [m EXCEPT !.ppu.vram = m.bus.vram, !.bus.vram_dirty = FALSE]
    ELSE m

\* the head of tick_components: the PPU's VRAM and OAM are copied from the
\* bus when the bus's dirty flag is set
copy_on_dirty(m) ==
    LET m1 == IF "vram_dirty" \in DOMAIN m.bus /\ m.bus.vram_dirty
              THEN [m EXCEPT !.ppu.vram = m.bus.vram, !.bus.vram_dirty = FALSE]
              ELSE m
    IN  IF "oam_dirty" \in DOMAIN m1.bus /\ m1.bus.oam_dirty
        THEN [m1 EXCEPT !.ppu.oam = m1.bus.oam, !.bus.oam_dirty = FALSE]
        ELSE m1

\* a faulty tail of tick_components: the joypad request is never routed
tick_components_joypad_unrouted(m, cycles) ==
    CHOOSE r \in {SyncToBus(m1) : m1 \in {TickLoop(copy_on_dirty(m), cycles)}} : TRUE

\* Emulator::tick_components
tick_components(m, cycles) ==
    CHOOSE r \in
      {SyncToBus(m2) :
         m2 \in {IF m1.gamepad.interrupt_requested
                 THEN [m1 EXCEPT !.cpu = request_interrupt(m1.cpu, 16),
                                 !.gamepad = [m1.gamepad EXCEPT
                                                 !.interrupt_requested = FALSE]]
                 ELSE m1 : m1 \in {TickLoop(copy_on_dirty(m), cycles)}}} : TRUE

(***************************************************************************)
(* Spec: Emulator::step, one driver step per transition.  last records     *)
(* what the step did: its path (kind), the instruction fetched (op, arg),  *)
(* the CPU as the step found it (pc0, sp0, ime0, halted0, if0, ie0, pend0, *)
(* hram0, ticks0), IME when the instruction executed (ime_x), the source   *)
(* IF right after handle_interrupts (if_disp), the T-cycles handed to      *)
(* tick_components (t), the timer counter after the mirrors that follow    *)
(* execute (div_sync), PC as the last HALT left it (halt_pc), and          *)
(* summaries of the two steps before (h1, h2).                             *)
(***************************************************************************)
MaxSteps == 6

NoStep == [kind |-> "init", op |-> "", ime_x |-> FALSE, pend0 |-> FALSE,
           woke |-> FALSE, pc |-> 0]

\* what the next step keeps of this one
Summary ==
    [kind |-> last.kind, op |-> last.op, ime_x |-> last.ime_x, pend0 |-> last.pend0,
     woke |-> last.kind = "halt" /\ ~last.ime0 /\ ~cpu.halted, pc |-> cpu.pc]

Init ==
    /\ Constructed
    /\ last = [kind |-> "init", op |-> "", arg |-> 0, n |-> 0,
               pc0 |-> cpu.pc, sp0 |-> cpu.sp, ime0 |-> FALSE, halted0 |-> FALSE,
               if0 |-> 0, ie0 |-> 0, pend0 |-> FALSE, hram0 |-> bus.hram,
               ticks0 |-> 0, ime_x |-> FALSE, if_disp |-> 0, t |-> 0,
               div_sync |-> timer.div, halt_pc |-> 0, h1 |-> NoStep, h2 |-> NoStep]

\* the head of step: reset_step_cycles, IE/IF mirrored from the bus, the
\* register mirrors and check_dma_start
StepEntry ==
    LET c == [reset_step_cycles(cpu) EXCEPT !.ie_register = bus.ie_register,
                                            !.int_flags = bus.int_flags]
    IN  SyncFromBus([Machine EXCEPT !.cpu = c])

\* Cpu::take_t_cycles then tick_components
TakeAndTick(m, floor) ==
    LET t == m.cpu.pending_m_cycles * 4
    IN  tick_components([m EXCEPT !.cpu = reset_step_cycles(m.cpu)],
                        IF t = 0 THEN floor ELSE t)

\* the delayed IME enable of step
EnableIme(c) == IF c.enabling_ime THEN [c EXCEPT !.enabling_ime = FALSE, !.ime = TRUE] ELSE c

\* a faulty wake test: a halted CPU wakes only with IME true
HaltWakeMut(c) == IF c.ime /\ interrupts_pending(c) THEN [c EXCEPT !.halted = FALSE] ELSE c

\* the wake test that ends a halted step
HaltWake(c) == IF interrupts_pending(c) THEN [c EXCEPT !.halted = FALSE] ELSE c

\* the execute path of step for one instruction, from the head's machine m:
\* the delayed IME enable, fetch and execute, IE/IF and the register mirrors
\* read back from the bus, check_dma_start, then the ticks
StepInstruction(m, inst) ==
    CHOOSE r \in
      {TakeAndTick(m1, 4) :
         m1 \in {SyncFromBus([m EXCEPT
                                !.cpu = [x.cpu EXCEPT !.ie_register = x.bus.ie_register,
                                                      !.int_flags = x.bus.int_flags],
                                !.bus = x.bus]) :
                   x \in {Execute([cpu |-> EnableIme(m.cpu),
                                   bus |-> [m.bus EXCEPT !.int_flags = m.cpu.int_flags]],
                                  inst)}}} : TRUE

Running == ~ctx.paused /\ ctx.running /\ last.n < MaxSteps

\* the fields of last every path fills alike
Observed(m) ==
    [last EXCEPT !.n = last.n + 1,
                 !.pc0 = m.cpu.pc, !.sp0 = m.cpu.sp, !.ime0 = m.cpu.ime,
                 !.halted0 = m.cpu.halted, !.if0 = m.cpu.int_flags,
                 !.ie0 = m.cpu.ie_register, !.pend0 = interrupts_pending(m.cpu),
                 !.hram0 = m.bus.hram, !.ticks0 = m.ctx.ticks,
                 !.h1 = Summary, !.h2 = last.h1]

Commit(m) ==
    /\ cpu' = m.cpu /\ bus' = m.bus /\ timer' = m.timer /\ dma' = m.dma
    /\ lcd' = m.lcd /\ ppu' = m.ppu /\ gamepad' = m.gamepad /\ ctx' = m.ctx
    /\ apu' = apu

\* step, the path that dispatches an interrupt
StepDispatch ==
    /\ Running
    /\ \E m \in {StepEntry} :
       \E h \in {handle_interrupts([cpu |-> m.cpu, bus |-> m.bus])} :
       \E m1 \in {[m EXCEPT !.cpu = add_m_cycles(h.cpu, 5), !.bus = h.bus]} :
       \E m2 \in {TakeAndTick(m1, 0)} :
           /\ h.handled
           /\ Commit(m2)
           /\ last' = [Observed(m) EXCEPT !.kind = "dispatch", !.op = "", !.arg = 0,
                          !.ime_x = FALSE,
                          !.if_disp = h.cpu.int_flags,
                          !.t = m1.cpu.pending_m_cycles * 4,
                          !.div_sync = m.timer.div]

\* step, the path of a halted CPU
StepHalted ==
    /\ Running
    /\ \E m \in {StepEntry} :
       \E h \in {handle_interrupts([cpu |-> m.cpu, bus |-> m.bus])} :
       \E c1 \in {EnableIme(m.cpu)} :
       \E m1 \in {[m EXCEPT !.cpu = add_m_cycles(c1, 1),
                            !.bus = [m.bus EXCEPT !.int_flags = m.cpu.int_flags]]} :
           /\ ~h.handled
           /\ c1.halted
           /\ \E m2 \in {TakeAndTick(m1, 0)} :
                 Commit([m2 EXCEPT !.cpu = HaltWake(m2.cpu)])
           /\ last' = [Observed(m) EXCEPT !.kind = "halt", !.op = "", !.arg = 0,
                          !.ime_x = c1.ime, !.if_disp = m.cpu.int_flags,
                          !.t = m1.cpu.pending_m_cycles * 4,
                          !.div_sync = m.timer.div]

\* step, the path that fetches and executes an instruction
StepExecute ==
    /\ Running
    /\ \E m \in {StepEntry} :
       \E h \in {handle_interrupts([cpu |-> m.cpu, bus |-> m.bus])} :
       \E c1 \in {EnableIme(m.cpu)} :
           /\ ~h.handled
           /\ ~c1.halted
           /\ \E inst \in Instructions :
              \E x \in {Execute([cpu |-> c1,
                                 bus |-> [m.bus EXCEPT !.int_flags = m.cpu.int_flags]],
                                inst)} :
              \E c2 \in {[x.cpu EXCEPT !.ie_register = x.bus.ie_register,
                                       !.int_flags = x.bus.int_flags]} :
              \E m1 \in {SyncFromBus([m EXCEPT !.cpu = c2, !.bus = x.bus])} :
              \E m2 \in {TakeAndTick(m1, 4)} :
                  /\ inst.op = "RETI" => m.cpu.sp <= 65532
                  /\ Commit(m2)
                  /\ last' = [Observed(m) EXCEPT !.kind = "instr", !.op = inst.op,
                                 !.arg = inst.arg, !.ime_x = c1.ime,
                                 !.if_disp = m.cpu.int_flags,
                                 !.halt_pc = IF inst.op = "HALT" THEN x.cpu.pc
                                             ELSE last.halt_pc,
                                 !.t = IF m1.cpu.pending_m_cycles = 0 THEN 4
                                       ELSE m1.cpu.pending_m_cycles * 4,
                                 !.div_sync = m1.timer.div]

Step == StepDispatch \/ StepHalted \/ StepExecute

Next == Step

Spec == Init /\ [][Next]_vars

\* the enabled requests the step found: IF & IE & 0x1F
PendingMask0 == And8(And8(last.if0, last.ie0), 31)

\* C1: a step that starts with IME true and (IF & IE & 0x1F) # 0 dispatches
\* exactly one interrupt and fetches nothing: the source is the lowest set
\* bit of the mask, IME is false afterwards, only that IF bit is cleared,
\* the old PC is on the stack, PC is 0x40 + 8 * bit, and the peripherals
\* advance by 20 T-cycles.
C1_DispatchAtStepBoundary ==
    (last.kind # "init" /\ last.ime0 /\ PendingMask0 # 0) =>
        /\ last.kind = "dispatch" /\ last.op = ""
        /\ \E i \in 0 .. 4 :
              /\ bit(PendingMask0, i) /\ \A j \in 0 .. (i - 1) : ~bit(PendingMask0, j)
              /\ last.if_disp = last.if0 - Pow2(i)
              /\ cpu.pc = 64 + 8 * i
              /\ \A j \in (0 .. 7) \ {i} : bit(last.if0, j) => bit(bus.int_flags, j)
        /\ ~cpu.ime
        /\ cpu.sp = last.sp0 - 2
        /\ bus.hram[last.sp0 - 1] = last.pc0 \div 256
        /\ bus.hram[last.sp0 - 2] = last.pc0 % 256
        /\ last.t = 20 /\ ctx.ticks = last.ticks0 + 20

\* with STAT, Timer and Joypad all pending and enabled, STAT was dispatched
C1_Witness ==
    /\ last.kind = "dispatch" /\ last.ime0
    /\ PendingMask0 = 22
    /\ cpu.pc = 72 /\ last.if_disp = 244
    /\ cpu.sp = 65532 /\ last.t = 20 /\ ~cpu.ime

\* C2: the step after an EI executed with IME false never dispatches (it
\* executes the following instruction) even with a request pending; the
\* boundary after that instruction dispatches a pending request (unless the
\* instruction was DI); the step right after DI never dispatches.
C2_EiDelayedDiImmediate ==
    /\ (last.h1.op = "EI" /\ ~last.h1.ime_x) => last.kind = "instr"
    /\ (last.h2.op = "EI" /\ ~last.h2.ime_x /\ last.h1.op # "DI" /\ last.pend0) =>
          last.kind = "dispatch"
    /\ last.h1.op = "DI" => last.kind # "dispatch"

\* EI with a request already pending, then NOP, then the dispatch
C2_Witness ==
    /\ last.h2.op = "EI" /\ ~last.h2.ime_x /\ last.h2.pend0
    /\ last.h1.op = "NOP" /\ last.h1.pend0
    /\ last.kind = "dispatch"

\* no IF bit the step found set is clear after it
IfKept == \A j \in 0 .. 7 : bit(last.if0, j) => bit(cpu.int_flags, j)

\* a halted step with IME false and a request pending wakes without dispatch
HaltWakesWithoutDispatch ==
    (last.halted0 /\ ~last.ime0 /\ interrupts_pending(cpu)) =>
        /\ last.kind = "halt" /\ ~cpu.halted
        /\ cpu.pc = last.pc0 /\ cpu.pc = last.halt_pc /\ cpu.sp = last.sp0
        /\ bus.hram = last.hram0
        /\ IfKept

\* the step after such a wake fetches at the instruction after HALT
ResumesAfterHalt ==
    last.h1.woke => (last.kind = "instr" /\ last.pc0 = last.h1.pc)

\* C3, as stated: every step that starts halted fetches nothing and advances
\* the peripherals by exactly 4 T-cycles; with IME false and a request
\* pending, halted is cleared without dispatch and execution resumes after
\* HALT.
C3_HaltedStepOneMCycle ==
    /\ last.halted0 => (last.op = "" /\ last.t = 4 /\ ctx.ticks = last.ticks0 + 4)
    /\ HaltWakesWithoutDispatch
    /\ ResumesAfterHalt

\* C3, amended: a step that starts halted fetches nothing; it advances the
\* peripherals by 4 T-cycles unless it starts with IME true and a request
\* pending, and then it dispatches (20 T-cycles) and clears halted; the wake
\* with IME false is as stated.
C3_HaltedStepUnlessDispatch ==
    /\ last.halted0 => last.op = ""
    /\ (last.halted0 /\ ~(last.ime0 /\ last.pend0)) =>
          (last.kind = "halt" /\ last.t = 4 /\ ctx.ticks = last.ticks0 + 4
             /\ cpu.pc = last.pc0)
    /\ (last.halted0 /\ last.ime0 /\ last.pend0) =>
          (last.kind = "dispatch" /\ last.t = 20 /\ ~cpu.halted)
    /\ HaltWakesWithoutDispatch
    /\ ResumesAfterHalt

\* a wake with IME false, then the fetch of the instruction after HALT
C3_Witness ==
    /\ last.h1.woke /\ last.h1.kind = "halt" /\ ~last.ime0 /\ last.pend0
    /\ last.kind = "instr" /\ last.op = "NOP" /\ last.pc0 = last.halt_pc

\* C29: the step that follows an interrupt dispatch executes the handler's
\* first instruction with IME false, and leaves IME false unless that
\* instruction is RETI: an EI executed just before the dispatch does not
\* turn IME back on.
C29_ImeOffAfterDispatch ==
    (last.kind \in {"instr", "halt"} /\ last.h1.kind = "dispatch") =>
        /\ ~last.ime_x
        /\ cpu.ime => last.op = "RETI"

\* C8: a step whose instruction writes any byte to 0xFF04 leaves the whole
\* 16-bit counter at 0 before that step's peripheral ticks.
C8_DivWriteZeroesCounter ==
    (last.kind = "instr" /\ last.op = "LDH (a8),A" /\ last.arg = 4) =>
        last.div_sync = 0

(***************************************************************************)
(* SpecBus: the bus alone, with its work RAM and OAM, driven through       *)
(* Bus::write and Bus::set_dma_active; Bus::read is the function BusRead   *)
(* of the state.  last.pre is the bus before the operation.                *)
(***************************************************************************)
MaxBusWrites == 3

\* addresses at the edges of work RAM, of its echo and of OAM
BusAddrs == {49152, 56831, 56832, 57343, 57344, 65023, 65024, 65183}
BusVals == {17, 34}

\* Bus::new with its memories
BusWithMemory == [wram |-> WramNew, oam |-> OamNew] @@ BusInit

InitBus ==
    /\ cpu = CpuInit /\ timer = TimerNew /\ dma = DmaNew /\ lcd = LcdNew
    /\ ppu = PpuNew /\ gamepad = GamepadNew /\ ctx = CtxInit
    /\ apu = ApuNew
    /\ bus = BusWithMemory
    /\ last = [kind |-> "init", addr |-> 0, value |-> 0, n |-> 0, pre |-> bus]

\* a write through the bus
BusWriteStep ==
    /\ last.n < MaxBusWrites
    /\ \E address \in BusAddrs : \E value \in BusVals :
          /\ bus' = BusWrite(bus, address, value)
          /\ last' = [kind |-> "write", addr |-> address, value |-> value,
                      n |-> last.n + 1, pre |-> bus]
    /\ UNCHANGED <<apu, cpu, timer, dma, lcd, ppu, gamepad, ctx>>

\* the driver sets or clears the DMA flag
SetDmaActiveStep ==
    /\ \E active \in BOOLEAN :
          /\ bus' = set_dma_active(bus, active)
          /\ last' = [kind |-> "flag", addr |-> 0, value |-> 0, n |-> last.n,
                      pre |-> bus]
    /\ UNCHANGED <<apu, cpu, timer, dma, lcd, ppu, gamepad, ctx>>

NextBus == BusWriteStep \/ SetDmaActiveStep

SpecBus == InitBus /\ [][NextBus]_vars

\* C11: with the DMA flag set every read of 0xFE00-0xFE9F returns 0xFF and
\* a write there leaves OAM as it was; with the flag clear a read returns
\* the stored byte and a write stores its byte (and no other).
C11_OamBlockedDuringDma ==
    /\ \A a \in BusAddrs \cap (65024 .. 65183) :
          BusRead(bus, a) = IF bus.dma_active THEN 255 ELSE bus.oam[a - 65024]
    /\ (last.kind = "write" /\ last.addr \in 65024 .. 65183) =>
          IF last.pre.dma_active
          THEN bus.oam = last.pre.oam
          ELSE /\ bus.oam = [last.pre.oam EXCEPT ![last.addr - 65024] = last.value]
               /\ BusRead(bus, last.addr) = last.value

\* a write to a non-zero OAM byte dropped while the flag is set
C11_Witness ==
    /\ last.kind = "write" /\ last.addr = 65024 /\ last.pre.dma_active
    /\ bus.oam[0] = 17 /\ last.value = 34
    /\ BusRead(bus, 65024) = 255

MaxOamDmaSteps == 46
MaxDmaStarts == 2

\* page 0xC0 is work RAM, page 0xFE is OAM itself
OamDmaPages == {192, 254}
WramSlopes == {3, 5}

InitOamDma ==
    /\ cpu = CpuInit /\ timer = TimerNew /\ dma = DmaNew /\ lcd = LcdNew
    /\ gamepad = GamepadNew /\ ctx = CtxInit
    /\ apu = ApuNew
    /\ ppu = [oam |-> OamNew] @@ PpuNew
    /\ \E k \in WramSlopes :
          bus = [BusWithMemory EXCEPT !.wram = [o \in WramCells |-> (o * k + 5) % 256]]
    /\ last = [kind |-> "init", n |-> 0, starts |-> 0, clean |-> TRUE]

\* one driver step on NOP, LD A,page or LDH (0x46),A
OamDmaStep ==
    /\ ~ctx.paused /\ ctx.running /\ last.n < MaxOamDmaSteps
    /\ \E m \in {StepEntry} :
       \E inst \in Instructions \cup [op : {"LD A,d8"}, arg : OamDmaPages]
                                \cup [op : {"LDH (a8),A"}, arg : {70}] :
          /\ ~handle_interrupts([cpu |-> m.cpu, bus |-> m.bus]).handled
          /\ ~m.cpu.halted
          /\ \/ inst.op = "NOP" /\ last.starts > 0
             \/ inst.op = "LD A,d8" /\ inst.arg \in OamDmaPages /\ cpu.a \notin OamDmaPages
             \/ /\ inst.op = "LDH (a8),A" /\ inst.arg = 70
                /\ cpu.a \in OamDmaPages /\ last.starts < MaxDmaStarts
          /\ Commit(StepInstruction(m, inst))
          /\ last' = IF inst.arg = 70
                     THEN [kind |-> "start", n |-> last.n + 1, starts |-> last.starts + 1,
                           clean |-> last.clean /\ ~dma.active]
                     ELSE [last EXCEPT !.kind = "instr", !.n = last.n + 1]

NextOamDma == OamDmaStep

SpecOamDma == InitOamDma /\ [][NextOamDma]_vars

\* C12: after 0xC0 is written to 0xFF46, with work RAM untouched and no
\* start during the transfer, once the DMA has completed the bus's OAM and
\* the PPU's OAM hold at every index i the byte of work RAM at 0xC000 + i.
C12_OamEqualsWramAfterDma ==
    (last.starts > 0 /\ last.clean /\ dma.value = 192 /\ ~dma.active) =>
        \A i \in OamCells :
            /\ bus.oam[i] = wram_read(bus.wram, 49152 + i)
            /\ ppu.oam[i] = wram_read(bus.wram, 49152 + i)

\* a completed transfer from page 0xC0: the last byte is the pattern's
C12_Witness ==
    /\ last.starts = 1 /\ last.clean /\ dma.value = 192 /\ ~dma.active
    /\ ~bus.dma_active
    /\ bus.oam[159] = (159 * 3 + 5) % 256 /\ ppu.oam[0] = 5

\* C34: at every driver step boundary the bus's DMA-active flag equals the
\* DMA engine's active flag: OAM is gated from the step that writes 0xFF46
\* until the tick that copies byte 159, and not afterwards until the next
\* start.
C34_BusDmaFlagFollowsEngine ==
    /\ bus.dma_active = dma.active
    /\ last.kind = "start" => bus.dma_active
    /\ (last.starts > 0 /\ dma.byte < 160) => bus.dma_active
    /\ (last.starts > 0 /\ dma.byte = 160) => ~bus.dma_active

\* a second transfer has copied byte 159 and OAM is open again
C34_Witness ==
    /\ last.starts = 2 /\ last.kind = "instr"
    /\ dma.byte = 160 /\ ~dma.active /\ ~bus.dma_active

(***************************************************************************)
(* SpecCpu: the driver running a program over the stack, branch, subtract  *)
(* and CB-prefixed instructions, from register values that earlier loads   *)
(* can leave (A drawn, HL pointing into high RAM).        last records the *)
(* instruction, the CPU as the step found it (pre), whether its condition  *)
(* held (taken), the T-cycles the peripherals advanced (t) and the same of *)
(* the step before (prev).                                                 *)
(***************************************************************************)
MaxCpuSteps == 2

AVals == {0, 1}

InitCpu ==
    /\ bus = BusInit /\ timer = TimerNew /\ dma = DmaNew /\ lcd = LcdNew
    /\ ppu = PpuNew /\ gamepad = GamepadNew /\ ctx = CtxInit
    /\ apu = ApuNew
    /\ \E a \in AVals : cpu = [CpuInit EXCEPT !.a = a, !.h = 255, !.l = 240]
    /\ last = [kind |-> "init", op |-> "", arg |-> 0, cond |-> "", n |-> 0, t |-> 0,
               taken |-> FALSE, pre |-> cpu,
               prev |-> [op |-> "", cond |-> "", taken |-> FALSE, t |-> 0]]

\* one driver step that fetches and executes an instruction of the alphabet
CpuStep ==
    /\ ~ctx.paused /\ ctx.running /\ last.n < MaxCpuSteps
    /\ \E m \in {StepEntry} :
       \E inst \in CpuInstructions :
       \E m2 \in {StepInstruction(m, inst)} :
          /\ ~handle_interrupts([cpu |-> m.cpu, bus |-> m.bus]).handled
          /\ ~m.cpu.halted
          /\ Commit(m2)
          /\ last' = [kind |-> "instr", op |-> inst.op, arg |-> inst.arg,
                      cond |-> inst.cond, n |-> last.n + 1,
                      t |-> m2.ctx.ticks - m.ctx.ticks,
                      taken |-> check_condition(m.cpu, inst.cond), pre |-> m.cpu,
                      prev |-> [op |-> last.op, cond |-> last.cond,
                                taken |-> last.taken, t |-> last.t]]

NextCpu == CpuStep

SpecCpu == InitCpu /\ [][NextCpu]_vars

\* C13: bits 0-3 of F are zero in every CPU state.
C13_FlagLowNibbleZero == cpu.f % 16 = 0

\* POP AF of a word whose low byte is 0x13 leaves F = 0x10
C13_Witness ==
    /\ last.op = "POP" /\ Pairs[last.arg] = "AF"
    /\ BusRead(bus, last.pre.sp) = 19
    /\ cpu.f = 16 /\ cpu.a = BusRead(bus, last.pre.sp + 1)

\* C14: after SUB, SBC or CP of n from A with carry-in c (0 for SUB and CP),
\* Z is set iff (A - n - c) mod 256 = 0, N is set, H is set iff
\* (A & 0xF) - (n & 0xF) - c < 0 and C is set iff A - n - c < 0.
C14_SubtractFlags ==
    (last.op \in {"SUB", "SBC", "CP"}) =>
        LET A == last.pre.a
            n == last.arg
            c == IF last.op = "SBC" /\ flag_c(last.pre) THEN 1 ELSE 0
        IN  /\ flag_z(cpu) <=> ((A - n - c + 512) % 256 = 0)
            /\ bit(cpu.f, 6)
            /\ bit(cpu.f, 5) <=> ((A % 16) - (n % 16) - c < 0)
            /\ flag_c(cpu) <=> (A - n - c < 0)

\* C15: a step that executes PUSH advances the peripherals by 16 T-cycles,
\* POP by 12, RET by 16, a conditional RET by 8 when the condition fails
\* and by 20 when it holds.
C15_StackInstructionCycles ==
    /\ last.op = "PUSH" => last.t = 16
    /\ last.op = "POP" => last.t = 12
    /\ (last.op = "RET" /\ last.cond = "") => last.t = 16
    /\ (last.op = "RET" /\ last.cond # "") => last.t = IF last.taken THEN 20 ELSE 8

\* C16: of two consecutive steps executing the same kind of conditional
\* branch, one with its condition failing and one with it holding, the one
\* that holds advances the peripherals by 1 M-cycle more for JR and JP and
\* by 3 M-cycles more for CALL.
C16_TakenBranchExtraCycles ==
    (/\ last.op \in {"JR", "JP", "CALL"} /\ last.prev.op = last.op
     /\ last.cond # "" /\ last.prev.cond # ""
     /\ last.taken # last.prev.taken) =>
        LET extra == IF last.op = "CALL" THEN 12 ELSE 4
        IN  IF last.taken THEN last.t - last.prev.t = extra
            ELSE last.prev.t - last.t = extra

\* C17: a step that executes a CB-prefixed instruction advances the
\* peripherals by 8 T-cycles on a register, by 12 for BIT b,(HL) and by 16
\* for RES, SET and the rotates and shifts on (HL).
C17_CbInstructionCycles ==
    last.op = "CB" =>
        last.t = IF CbReg(last.arg) # "HL" THEN 8
                 ELSE IF last.arg \div 64 = 1 THEN 12 ELSE 16

(***************************************************************************)
(* SpecCart: MBC register writes and ROM reads through the bus, for        *)
(* freshly loaded cartridges of several controller types and ROM sizes.    *)
(* last records the access, the byte a read returned and the access        *)
(* before it (prev).                                                       *)
(***************************************************************************)
MaxCartOps == 3

\* MBC1, MBC3 and MBC5 cartridges of 32 KiB, 64 KiB, 512 KiB and 2 MiB
CartTypes == {1, 17, 25}
RomBankCounts == {2, 4, 32, 128}
CartWriteAddrs == {0, 8192, 16383, 16384, 24576}
CartReadAddrs == {0, 16384, 32767}
CartVals == {0, 1, 3, 4, 10, 32}

InitCart ==
    /\ cpu = CpuInit /\ timer = TimerNew /\ dma = DmaNew /\ lcd = LcdNew
    /\ ppu = PpuNew /\ gamepad = GamepadNew /\ ctx = CtxInit
    /\ apu = ApuNew
    /\ \E type \in CartTypes : \E banks \in RomBankCounts :
          bus = [cart |-> CartLoad(type, banks, 0)] @@ BusInit
    /\ last = [kind |-> "init", addr |-> 0, value |-> 0, n |-> 0,
               prev |-> [kind |-> "", addr |-> 0, value |-> 0]]

\* a write to the cartridge through the bus
CartWriteStep ==
    /\ last.n < MaxCartOps
    /\ \E address \in CartWriteAddrs : \E value \in CartVals :
          /\ bus' = BusWrite(bus, address, value)
          /\ last' = [kind |-> "write", addr |-> address, value |-> value,
                      n |-> last.n + 1,
                      prev |-> [kind |-> last.kind, addr |-> last.addr,
                                value |-> last.value]]
    /\ UNCHANGED <<apu, cpu, timer, dma, lcd, ppu, gamepad, ctx>>

\* a read of the cartridge through the bus
CartReadStep ==
    /\ last.n < MaxCartOps
    /\ \E address \in CartReadAddrs :
          last' = [kind |-> "read", addr |-> address, value |-> BusRead(bus, address),
                   n |-> last.n + 1,
                   prev |-> [kind |-> last.kind, addr |-> last.addr,
                             value |-> last.value]]
    /\ UNCHANGED <<apu, bus, cpu, timer, dma, lcd, ppu, gamepad, ctx>>

NextCart == CartWriteStep \/ CartReadStep

SpecCart == InitCart /\ [][NextCart]_vars

\* C19: for an MBC1 cartridge with more than one ROM bank the bank mapped
\* at 0x4000-0x7FFF is never bank 0, in either mode and after any register
\* writes: a read there never returns bank 0's byte; with a 2 MiB ROM and
\* the upper register 0, a read of 0x4000 right after a write of a value
\* with low five bits 0 to 0x2000-0x3FFF returns the ROM byte at 0x4000.
C19_Mbc1NeverBankZero ==
    (is_mbc1(bus.cart) /\ rom_bank_count(bus.cart) > 1) =>
        /\ mbc1_romx_bank(bus.cart) # 0
        /\ (last.kind = "read" /\ last.addr \in 16384 .. 32767) =>
               last.value # RomByte(last.addr - 16384)
        /\ (/\ bus.cart.rom_banks = 128 /\ bus.cart.ram_bank = 0
            /\ last.kind = "read" /\ last.addr = 16384
            /\ last.prev.kind = "write" /\ last.prev.addr \in 8192 .. 16383
            /\ last.prev.value % 32 = 0) =>
               last.value = RomByte(16384)

\* a fresh 2 MiB MBC1 cartridge: 0x00 written to 0x2000, then 0x4000 read
C19_Witness ==
    /\ is_mbc1(bus.cart) /\ bus.cart.rom_banks = 128 /\ last.n = 2
    /\ last.kind = "read" /\ last.addr = 16384
    /\ last.prev = [kind |-> "write", addr |-> 8192, value |-> 0]
    /\ last.value = RomByte(16384) /\ last.value # RomByte(0)

\* C20: for an MBC1 cartridge in either banking mode, a read of
\* 0x4000-0x7FFF returns the ROM byte of the bank made of the upper
\* register as bits 5-6 and the ROM-bank register as bits 0-4, plus 1 when
\* its low five bits are 0, modulo the ROM bank count.
C20_Mbc1ComposedBank ==
    (is_mbc1(bus.cart) /\ last.kind = "read" /\ last.addr \in 16384 .. 32767) =>
        LET composed == (bus.cart.ram_bank % 4) * 32 + (bus.cart.rom_bank % 32)
            nonzero == IF composed % 32 = 0 THEN composed + 1 ELSE composed
            bank == nonzero % rom_bank_count(bus.cart)
        IN  last.value = RomByte(bank * 16384 + (last.addr - 16384))

\* C21: for an MBC5 cartridge the byte written to 0x2000-0x3FFF is stored
\* unchanged, and a read of 0x4000-0x7FFF returns the ROM byte of bank
\* (stored value mod ROM bank count), with no substitution for bank 0: after
\* 0x00 is written the window shows ROM bank 0.
C21_Mbc5BankNoSubstitution ==
    is_mbc5(bus.cart) =>
        /\ (last.kind = "write" /\ last.addr \in 8192 .. 16383) =>
               bus.cart.rom_bank = last.value
        /\ (last.kind = "read" /\ last.addr \in 16384 .. 32767) =>
               last.value = RomByte((bus.cart.rom_bank % rom_bank_count(bus.cart)) * 16384
                                      + (last.addr - 16384))

(***************************************************************************)
(* SpecCartRam: the RAM-enable register and the cartridge RAM window       *)
(* through the bus, for freshly loaded 32 KiB cartridges with no, 8 KiB    *)
(* and 32 KiB of RAM.  last records the access, the cartridge before it    *)
(* (pre), and what the writes to 0x0000-0x1FFF so far ask for (en: "never" *)
(* before any such write, else "on" or "off" by the low nibble of the most *)
(* recent one; pre_en is en before the access).                            *)
(***************************************************************************)
MaxRamOps == 4

RamBankCounts == {0, 1, 4}
RamWriteAddrs == {0, 16384, 24576, 40960, 49151}
RamReadAddrs == {40960, 49151}
RamVals == {0, 3, 10, 26}

InitCartRam ==
    /\ cpu = CpuInit /\ timer = TimerNew /\ dma = DmaNew /\ lcd = LcdNew
    /\ ppu = PpuNew /\ gamepad = GamepadNew /\ ctx = CtxInit
    /\ apu = ApuNew
    /\ \E type \in CartTypes : \E ram_banks \in RamBankCounts :
          bus = [cart |-> CartLoad(type, 2, ram_banks)] @@ BusInit
    /\ last = [kind |-> "init", addr |-> 0, value |-> 0, n |-> 0, pre |-> bus.cart,
               en |-> "never", pre_en |-> "never"]

\* a write to the cartridge through the bus
RamWriteStep ==
    /\ last.n < MaxRamOps
    /\ \E address \in RamWriteAddrs : \E value \in RamVals :
          /\ bus' = BusWrite(bus, address, value)
          /\ last' = [kind |-> "write", addr |-> address, value |-> value,
                      n |-> last.n + 1, pre |-> bus.cart,
                      en |-> IF address \in 0 .. 8191
                             THEN (IF value % 16 = 10 THEN "on" ELSE "off")
                             ELSE last.en,
                      pre_en |-> last.en]
    /\ UNCHANGED <<apu, cpu, timer, dma, lcd, ppu, gamepad, ctx>>

\* a read of the cartridge RAM window through the bus
RamReadStep ==
    /\ last.n < MaxRamOps
    /\ \E address \in RamReadAddrs :
          last' = [kind |-> "read", addr |-> address, value |-> BusRead(bus, address),
                   n |-> last.n + 1, pre |-> bus.cart, en |-> last.en,
                   pre_en |-> last.en]
    /\ UNCHANGED <<apu, bus, cpu, timer, dma, lcd, ppu, gamepad, ctx>>

NextCartRam == RamWriteStep \/ RamReadStep

SpecCartRam == InitCartRam /\ [][NextCartRam]_vars

\* C22: for MBC1, MBC3 and MBC5 cartridges the RAM is enabled iff the most
\* recent write to 0x0000-0x1FFF had low nibble 0xA (disabled before any
\* such write); while it is disabled a read of 0xA000-0xBFFF returns 0xFF
\* and a write there leaves the cartridge RAM and the dirty flag unchanged.
C22_RamEnableGate ==
    /\ bus.cart.ram_enabled <=> (last.en = "on")
    /\ (last.kind = "read" /\ last.addr \in 40960 .. 49151 /\ last.pre_en # "on") =>
           last.value = 255
    /\ (last.kind = "write" /\ last.addr \in 40960 .. 49151 /\ last.pre_en # "on") =>
           /\ bus.cart.ram = last.pre.ram
           /\ bus.cart.need_save = last.pre.need_save

\* RAM enabled, a byte stored, RAM disabled again: the next read returns 0xFF
C22_Witness ==
    /\ bus.cart.ram_banks > 0 /\ last.pre_en = "off" /\ bus.cart.need_save
    /\ last.kind = "read" /\ last.value = 255
    /\ \E o \in DOMAIN bus.cart.ram : bus.cart.ram[o] # 0


(***************************************************************************)
(* SpecStat: the STAT interrupt sources.  The program writes STAT and LYC  *)
(* through the bus at power-on and the driver copies them into the LCD     *)
(* (Emulator::sync_lcd_from_bus); then the PPU runs T-cycle by T-cycle and *)
(* the driver routes each raised flag to IF (Emulator::tick_components).   *)
(* last.pre is the LCD before the step.                                    *)
(***************************************************************************)
MaxStatFrames == 1

\* STAT values written: LYC source alone, LYC and HBlank sources, VBlank and
\* OAM sources
StatVals == {64, 72, 48}

LycVals == {0, 40}

\* the OR of the four STAT sources as the hardware forms it
stat_line(l) ==
    \/ mode(l) = 0 /\ bit(l.stat, 3)
    \/ mode(l) = 1 /\ bit(l.stat, 4)
    \/ mode(l) = 2 /\ bit(l.stat, 5)
    \/ l.ly = l.lyc /\ bit(l.stat, 6)

InitStat ==
    /\ Constructed
    /\ last = [kind |-> "init", pre |-> lcd, line_ticks |-> 0]

\* the program's writes to 0xFF41 and 0xFF45, then the driver's register sync
StatProgramStep ==
    /\ last.kind = "init"
    /\ \E stat \in StatVals, lyc \in LycVals :
          LET b == BusWrite(BusWrite(bus, 65345, stat), 65349, lyc)
          IN  /\ bus' = b
              /\ lcd' = sync_lcd_from_bus([Machine EXCEPT !.bus = b]).lcd
    /\ last' = [kind |-> "program", pre |-> lcd, line_ticks |-> ppu.line_ticks]
    /\ UNCHANGED <<apu, cpu, timer, dma, ppu, gamepad, ctx>>

\* one T-cycle of the PPU
StatTickStep ==
    /\ last.kind # "init"
    /\ ~ppu.vblank_interrupt /\ ~lcd.stat_interrupt
    /\ ppu.current_frame <= MaxStatFrames
    /\ \E r \in {PpuTick(ppu, lcd)} :
          /\ ppu' = r.ppu
          /\ lcd' = r.lcd
    /\ last' = [kind |-> "tick", pre |-> lcd, line_ticks |-> ppu.line_ticks]
    /\ UNCHANGED <<apu, cpu, bus, timer, dma, gamepad, ctx>>

\* the driver takes the raised flags: VBlank is bit 0, LCD STAT bit 1
StatRouteStep ==
    /\ ppu.vblank_interrupt \/ lcd.stat_interrupt
    /\ cpu' = LET c1 == IF ppu.vblank_interrupt THEN request_interrupt(cpu, 1) ELSE cpu
              IN  IF lcd.stat_interrupt THEN request_interrupt(c1, 2) ELSE c1
    /\ ppu' = clear_vblank_interrupt(ppu)
    /\ lcd' = clear_stat_interrupt(lcd)
    /\ last' = [kind |-> "route", pre |-> lcd, line_ticks |-> ppu.line_ticks]
    /\ UNCHANGED <<apu, bus, timer, dma, gamepad, ctx>>

NextStat == StatProgramStep \/ StatTickStep \/ StatRouteStep

SpecStat == InitStat /\ [][NextStat]_vars

\* C23: a PPU tick raises the STAT request only on a rising edge of the OR
\* of the four sources; when the OR is true before the tick and still true
\* after it, the tick raises no request.
C23_StatRisingEdgeOnly ==
    (last.kind = "tick" /\ lcd.stat_interrupt) =>
        (~stat_line(last.pre) /\ stat_line(lcd))

\* C24: with only STAT bit 6 set and LYC = 40, a PPU tick raises the STAT
\* request exactly when it changes LY from 39 to 40.
C24_LycRequestOncePerVisit ==
    (/\ last.kind = "tick"
     /\ lcd.stat - (lcd.stat % 8) = 64 /\ lcd.lyc = 40) =>
        (lcd.stat_interrupt <=> (last.pre.ly = 39 /\ lcd.ly = 40))

C24_Witness ==
    /\ last.kind = "route" /\ last.pre.stat_interrupt
    /\ lcd.stat - (lcd.stat % 8) = 64 /\ lcd.lyc = 40
    /\ lcd.ly = 40 /\ last.line_ticks = 0 /\ bit(cpu.int_flags, 1)
    /\ ppu.current_frame = 1


(***************************************************************************)
(* SpecFrame: Emulator::run_frame as the host calls it.  Between frames    *)
(* the host may pause, resume or stop the emulator, and the program may    *)
(* have halted the CPU; a call of run_frame then loops over step until its *)
(* condition fails or step returns false.  The program is NOPs after an    *)
(* optional leading HALT.  last.kind is the host's position: "idle" before *)
(* the first call, "loop" inside run_frame, "returned" after it;           *)
(* last.start_ticks is the local of run_frame, last.calls counts the calls *)
(* of step in this frame up to MaxStepCalls, last.frames the frames begun. *)
(* SpecFrameFair adds that the loop of a started call keeps executing.     *)
(***************************************************************************)
T_CYCLES_PER_FRAME == 70224

MaxRunFrames == 1

MaxStepCalls == 2

\* Emulator::step from the current state on the instruction the program
\* holds at PC: the machine it leaves and the value it returns
EmulatorStep(inst) ==
    IF ctx.paused \/ ~ctx.running THEN [m |-> Machine, ret |-> TRUE]
    ELSE CHOOSE r \in UNION
           {{IF h.handled
             THEN CHOOSE x \in
                    {[m |-> m2, ret |-> ~m2.ctx.die] :
                       m2 \in {TakeAndTick([m EXCEPT !.cpu = add_m_cycles(h.cpu, 5),
                                                     !.bus = h.bus], 0)}} : TRUE
             ELSE IF EnableIme(m.cpu).halted
             THEN CHOOSE x \in
                    {[m |-> [m2 EXCEPT !.cpu = HaltWake(m2.cpu)], ret |-> TRUE] :
                       m2 \in {TakeAndTick(
                                 [m EXCEPT !.cpu = add_m_cycles(EnableIme(m.cpu), 1),
                                           !.bus = [m.bus EXCEPT
                                                      !.int_flags = m.cpu.int_flags]],
                                 0)}} : TRUE
             ELSE CHOOSE x \in
                    {[m |-> m2, ret |-> ~m2.ctx.die] :
                       m2 \in {StepInstruction(m, inst)}} : TRUE :
               h \in {handle_interrupts([cpu |-> m.cpu, bus |-> m.bus])}} :
             m \in {StepEntry}} : TRUE

InitFrame ==
    /\ Constructed
    /\ last = [kind |-> "idle", start_ticks |-> 0, calls |-> 0, frames |-> 0]

\* Emulator::pause
FramePause ==
    /\ last.kind # "loop" /\ ~ctx.paused
    /\ ctx' = [ctx EXCEPT !.paused = TRUE]
    /\ UNCHANGED <<apu, cpu, bus, timer, dma, lcd, ppu, gamepad, last>>

\* Emulator::resume
FrameResume ==
    /\ last.kind # "loop" /\ ctx.paused
    /\ ctx' = [ctx EXCEPT !.paused = FALSE]
    /\ UNCHANGED <<apu, cpu, bus, timer, dma, lcd, ppu, gamepad, last>>

\* Emulator::stop
FrameStop ==
    /\ last.kind # "loop" /\ ~ctx.die
    /\ ctx' = [ctx EXCEPT !.die = TRUE, !.running = FALSE]
    /\ UNCHANGED <<apu, cpu, bus, timer, dma, lcd, ppu, gamepad, last>>

\* a single step before the first frame in which the program halts the CPU
FrameHaltStep ==
    /\ last.kind = "idle" /\ ctx.ticks = 0 /\ ~ctx.paused /\ ctx.running
    /\ \E r \in {EmulatorStep([op |-> "HALT", arg |-> 0])} : Commit(r.m)
    /\ UNCHANGED <<apu, last>>

\* run_frame is entered: start_ticks is taken
RunFrameCall ==
    /\ last.kind # "loop" /\ last.frames < MaxRunFrames
    /\ last' = [kind |-> "loop", start_ticks |-> ctx.ticks, calls |-> 0,
                frames |-> last.frames + 1]
    /\ UNCHANGED <<apu, cpu, bus, timer, dma, lcd, ppu, gamepad, ctx>>

\* the condition of the while loop of run_frame
RunFrameCondition ==
    ctx.ticks - last.start_ticks < T_CYCLES_PER_FRAME /\ ~ctx.die

\* one iteration of the loop: step is called, and false breaks the loop
RunFrameStep ==
    /\ last.kind = "loop" /\ RunFrameCondition
    /\ \E r \in {EmulatorStep([op |-> "NOP", arg |-> 0])} :
          /\ Commit(r.m)
          /\ last' = IF r.ret
                     THEN [last EXCEPT !.calls = IF @ < MaxStepCalls THEN @ + 1 ELSE @]
                     ELSE [last EXCEPT !.kind = "returned"]

\* the loop condition fails: run_frame returns
RunFrameReturn ==
    /\ last.kind = "loop" /\ ~RunFrameCondition
    /\ last' = [last EXCEPT !.kind = "returned"]
    /\ UNCHANGED <<apu, cpu, bus, timer, dma, lcd, ppu, gamepad, ctx>>

NextFrame ==
    \/ FramePause \/ FrameResume \/ FrameStop \/ FrameHaltStep
    \/ RunFrameCall \/ RunFrameStep \/ RunFrameReturn

SpecFrame == InitFrame /\ [][NextFrame]_vars

SpecFrameFair == SpecFrame /\ WF_vars(RunFrameStep \/ RunFrameReturn)

\* C26: every call of run_frame returns: a state inside the loop of
\* run_frame leads to a state in which run_frame has returned.
\* (An iteration whose call of step changes nothing repeats the same state:
\* a behaviour that stays in the loop for ever is the code looping for ever.)
C26_RunFrameReturns == (last.kind = "loop") ~> (last.kind = "returned")


(***************************************************************************)
(* SpecJoypad: the host's set_button calls, the program's writes of the    *)
(* selection bits, and the driver's routing of the joypad request          *)
(* (Emulator::tick_components).  last.pre is the gamepad before the step.  *)
(***************************************************************************)
Buttons == {"A", "B", "Select", "Start", "Right", "Left", "Up", "Down"}

SelectionVals == {0, 16, 32, 48}

\* Gamepad::is_pressed
is_pressed(g, button) == button \in g.buttons

\* the group of a button is selected when its selection bit is 0
group_selected(g, button) ==
    IF button \in {"A", "B", "Select", "Start"} THEN And8(g.selection, 32) = 0
    ELSE And8(g.selection, 16) = 0

\* a variant that requests the interrupt only for a button of a selected group
set_button_selected(g, button, pressed) ==
    LET was_pressed == is_pressed(g, button)
        g1 == [g EXCEPT !.buttons = IF pressed THEN @ \cup {button} ELSE @ \ {button}]
    IN  IF pressed /\ ~was_pressed /\ group_selected(g, button)
        THEN [g1 EXCEPT !.interrupt_requested = TRUE] ELSE g1

\* Gamepad::set_button
set_button(g, button, pressed) ==
    LET was_pressed == is_pressed(g, button)
        g1 == [g EXCEPT !.buttons = IF pressed THEN @ \cup {button} ELSE @ \ {button}]
    IN  IF pressed /\ ~was_pressed
        THEN [g1 EXCEPT !.interrupt_requested = TRUE] ELSE g1

InitJoypad ==
    /\ Constructed
    /\ last = [kind |-> "init", button |-> "", pressed |-> FALSE, pre |-> gamepad]

\* Emulator::set_button
SetButtonStep ==
    /\ \E button \in Buttons, pressed \in BOOLEAN :
          /\ gamepad' = set_button(gamepad, button, pressed)
          /\ last' = [kind |-> "set", button |-> button, pressed |-> pressed,
                      pre |-> gamepad]
    /\ UNCHANGED <<apu, cpu, bus, timer, dma, lcd, ppu, ctx>>

\* the program writes JOYP and the driver mirrors it into the gamepad
JoypadSelectStep ==
    /\ \E value \in SelectionVals :
          LET b == BusWrite(bus, 65280, value)
          IN  /\ bus' = b
              /\ gamepad' = sync_gamepad_from_bus([Machine EXCEPT !.bus = b]).gamepad
    /\ last' = [kind |-> "select", button |-> "", pressed |-> FALSE, pre |-> gamepad]
    /\ UNCHANGED <<apu, cpu, timer, dma, lcd, ppu, ctx>>

\* the driver takes the raised request: Joypad is bit 4 of IF
JoypadRouteStep ==
    /\ gamepad.interrupt_requested
    /\ cpu' = request_interrupt(cpu, 16)
    /\ gamepad' = [gamepad EXCEPT !.interrupt_requested = FALSE]
    /\ last' = [kind |-> "route", button |-> "", pressed |-> FALSE, pre |-> gamepad]
    /\ UNCHANGED <<apu, bus, timer, dma, lcd, ppu, ctx>>

NextJoypad == SetButtonStep \/ JoypadSelectStep \/ JoypadRouteStep

SpecJoypad == InitJoypad /\ [][NextJoypad]_vars

\* C27: set_button raises the joypad request exactly when it changes a
\* button from not pressed to pressed, whatever the selection bits are; a
\* release or a repeated press leaves the request as it was.
C27_RequestOnPressEdgeOnly ==
    last.kind = "set" =>
        /\ (last.pressed /\ ~is_pressed(last.pre, last.button)) =>
               gamepad.interrupt_requested
        /\ ~(last.pressed /\ ~is_pressed(last.pre, last.button)) =>
               gamepad.interrupt_requested = last.pre.interrupt_requested
        /\ gamepad.selection = last.pre.selection

C27_Witness ==
    /\ last.kind = "set" /\ last.pressed /\ last.button = "A"
    /\ ~is_pressed(last.pre, "A") /\ ~last.pre.interrupt_requested
    /\ gamepad.selection = 48 /\ gamepad.interrupt_requested
    /\ bit(cpu.int_flags, 4) /\ is_pressed(gamepad, "Down")


(***************************************************************************)
(* SpecApu: Apu::write on registers of every channel, the master registers *)
(* and the wave table.  last.pre is the APU before the write, and          *)
(* last.dirty_reset tells that a power-off write found all four channels   *)
(* and NR50, NR51 changed from their reset values.                         *)
(***************************************************************************)
\* NR12, NR14, NR22, NR30, NR42, NR50, NR51, NR52 and the first wave byte
ApuAddrs == {65298, 65300, 65303, 65306, 65313, 65316, 65317, 65318, 65328}

ApuVals == {0, 199}

InitApu ==
    /\ Constructed
    /\ last = [kind |-> "init", addr |-> 0, value |-> 0, pre |-> apu,
               dirty_reset |-> FALSE]

ApuWriteStep ==
    /\ \E address \in ApuAddrs, value \in ApuVals :
          /\ apu' = ApuWrite(apu, address, value)
          /\ last' = [kind |-> "write", addr |-> address, value |-> value, pre |-> apu,
                      dirty_reset |->
                         \/ last.dirty_reset
                         \/ /\ address = 65318 /\ ~bit(value, 7) /\ apu.enabled
                            /\ apu.ch1 # Channel1New /\ apu.ch2 # Channel2New
                            /\ apu.ch3 # Channel3New /\ apu.ch4 # Channel4New
                            /\ apu.nr50 # 0 /\ apu.nr51 # 0]
    /\ UNCHANGED <<cpu, bus, timer, dma, lcd, ppu, gamepad, ctx>>

NextApu == ApuWriteStep

SpecApu == InitApu /\ [][NextApu]_vars

\* C28: a write of NR52 with bit 7 clear while the APU is on leaves the
\* four channels as constructed and NR50 and NR51 at 0; while the APU is
\* off a write to a register other than NR52 and the wave table changes
\* nothing in the APU.
C28_PowerOffResetsAndGates ==
    /\ (/\ last.kind = "write" /\ last.addr = 65318
        /\ ~bit(last.value, 7) /\ last.pre.enabled) =>
           /\ apu.ch1 = Channel1New /\ apu.ch2 = Channel2New
           /\ apu.ch3 = Channel3New /\ apu.ch4 = Channel4New
           /\ apu.nr50 = 0 /\ apu.nr51 = 0
    /\ (/\ last.kind = "write" /\ ~last.pre.enabled
        /\ last.addr # 65318 /\ last.addr \notin 65328 .. 65343) =>
           apu = last.pre

C28_Witness ==
    /\ last.kind = "write" /\ ~last.pre.enabled /\ last.dirty_reset
    /\ last.addr = 65300 /\ last.value = 199
    /\ apu.ch1 = Channel1New /\ apu.nr50 = 0


(***************************************************************************)
(* SpecLyc: the driver on a program that writes LYC (0xFF45) through the   *)
(* bus.  last.lyc0 and last.ly0 are LYC and LY as the step found them.     *)
(***************************************************************************)
MaxLycSteps == 5

LycProgramVals == {0, 1}

LycInstructions ==
    [op : {"NOP"}, arg : {0}]
      \cup [op : {"LD A,d8"}, arg : LycProgramVals]
      \cup [op : {"LDH (a8),A"}, arg : {69}]

InitLyc ==
    /\ Constructed
    /\ last = [kind |-> "init", op |-> "", arg |-> 0, n |-> 0,
               lyc0 |-> lcd.lyc, ly0 |-> lcd.ly]

\* one driver step on NOP, LD A,d8 or LDH (0x45),A
LycStep ==
    /\ ~ctx.paused /\ ctx.running /\ last.n < MaxLycSteps
    /\ \E m \in {StepEntry} :
       \E inst \in LycInstructions :
          /\ ~handle_interrupts([cpu |-> m.cpu, bus |-> m.bus]).handled
          /\ ~m.cpu.halted
          /\ Commit(StepInstruction(m, inst))
          /\ last' = [kind |-> "instr", op |-> inst.op, arg |-> inst.arg,
                      n |-> last.n + 1, lyc0 |-> lcd.lyc, ly0 |-> lcd.ly]

NextLyc == LycStep

SpecLyc == InitLyc /\ [][NextLyc]_vars

\* C31: at the end of a step whose instruction changed LYC by a write to
\* 0xFF45, STAT bit 2 equals (LY == LYC).
C31_LycFlagFollowsLycWrite ==
    (/\ last.kind = "instr" /\ last.op = "LDH (a8),A" /\ last.arg = 69
     /\ lcd.lyc # last.lyc0) =>
        (bit(lcd.stat, 2) <=> lcd.ly = lcd.lyc)


\* C35: in a run from the constructed emulator whose program never writes
\* 0xFF04, the timer's 16-bit counter is 0xABCC plus the T-cycles elapsed,
\* modulo 65536, from the very first step on.
C35_CounterAdvancesPerCycle ==
    timer.div = (43980 + ctx.ticks) % 65536

(***************************************************************************)
(* SpecMirror: the copy-on-dirty mirror of VRAM and OAM.  The CPU writes   *)
(* VRAM and OAM through the bus, the driver may have set the DMA flag, and *)
(* tick_components runs the peripherals for one machine cycle after its    *)
(* head has copied the dirty memories into the PPU.                        *)
(***************************************************************************)
MaxMirrorTicks == 2

\* the first and the last byte of VRAM and of OAM
MirrorAddrs == {32768, 40959, 65024, 65183}

MirrorVals == {0, 7}

InitMirror ==
    /\ cpu = CpuInit /\ timer = TimerNew /\ dma = DmaNew /\ lcd = LcdNew
    /\ gamepad = GamepadNew /\ ctx = CtxInit
    /\ apu = ApuNew
    /\ ppu = [oam |-> OamNew, vram |-> VramNew] @@ PpuNew
    /\ bus = [vram |-> VramNew, vram_dirty |-> FALSE, oam_dirty |-> FALSE]
               @@ BusWithMemory
    /\ last = [kind |-> "init", addr |-> 0, value |-> 0]

\* a CPU write through the bus
MirrorWriteStep ==
    /\ \E address \in MirrorAddrs, value \in MirrorVals :
          /\ bus' = BusWrite(bus, address, value)
          /\ last' = [kind |-> "write", addr |-> address, value |-> value]
    /\ UNCHANGED <<apu, cpu, timer, dma, lcd, ppu, gamepad, ctx>>

\* the driver has set the DMA flag
MirrorDmaFlagStep ==
    /\ ~bus.dma_active
    /\ bus' = set_dma_active(bus, TRUE)
    /\ last' = [kind |-> "flag", addr |-> 0, value |-> 0]
    /\ UNCHANGED <<apu, cpu, timer, dma, lcd, ppu, gamepad, ctx>>

\* tick_components for one machine cycle
MirrorTickStep ==
    /\ ctx.ticks < MaxMirrorTicks * 4
    /\ \E m \in {tick_components(Machine, 4)} : Commit(m)
    /\ last' = [kind |-> "tick", addr |-> 0, value |-> 0]

NextMirror == MirrorWriteStep \/ MirrorDmaFlagStep \/ MirrorTickStep

SpecMirror == InitMirror /\ [][NextMirror]_vars

\* C33: after a CPU write to VRAM, or to OAM with the DMA flag clear, the
\* PPU's copy equals the bus's copy once the head of the next
\* tick_components has run, that is before the next PPU tick, and it is
\* still equal when tick_components has finished.
C33_PpuMemoryFollowsBus ==
    /\ last.kind = "write" =>
          /\ copy_on_dirty(Machine).ppu.vram = bus.vram
          /\ copy_on_dirty(Machine).ppu.oam = bus.oam
    /\ last.kind = "tick" => (ppu.vram = bus.vram /\ ppu.oam = bus.oam)

C33_Witness ==
    /\ last.kind = "tick"
    /\ ppu.vram[8191] = 7 /\ ppu.oam[0] = 7 /\ ppu.oam[159] = 0
    /\ bus.vram[8191] = 7 /\ bus.oam[0] = 7

(***************************************************************************)
(* SpecRoute: Emulator::step with the host calling set_button between      *)
(* steps.  The run starts where a program has armed every interrupt        *)
(* source: the timer is enabled at the fastest rate with TIMA about to     *)
(* overflow, the LCD is at the end of line 143 with the VBlank source of   *)
(* STAT selected, and IE holds 0 or every source.  last records the path   *)
(* of the step (kind), the number of steps (n) and the IF bits of the      *)
(* requests the step had to route (raised): those the timer, the PPU and   *)
(* the LCD raise on a tick of the step, and the joypad's request pending   *)
(* when tick_components starts.                                            *)
(***************************************************************************)
MaxRouteSteps == 4

RouteInstructions ==
    [op : {"NOP", "HALT", "EI"}, arg : {0}] \cup [op : {"LDH (a8),A"}, arg : {15, 255}]

RouteButtons == {"A", "Down"}

\* the IF bits of the requests raised by the tick that follows m
RaisedOne(m) ==
    (IF TimerTick(m.timer).interrupt_requested THEN 4 ELSE 0)
    + (IF PpuTick(m.ppu, m.lcd).ppu.vblank_interrupt THEN 1 ELSE 0)
    + (IF PpuTick(m.ppu, m.lcd).lcd.stat_interrupt THEN 2 ELSE 0)

\* the IF bits of the requests raised by the next cycles ticks
RECURSIVE RaisedLoop(_, _)
RaisedLoop(m, cycles) ==
    IF cycles = 0 THEN 0
    ELSE Or8(RaisedOne(m), RaisedLoop(TickOne(m), cycles - 1))

\* the requests tick_components has to route when it is handed m
Raised(m, floor) ==
    LET t == m.cpu.pending_m_cycles * 4
    IN  Or8(RaisedLoop(m, IF t = 0 THEN floor ELSE t),
            IF m.gamepad.interrupt_requested THEN 16 ELSE 0)

InitRoute ==
    /\ \E ie \in {0, 31} :
          LET m == SyncToBus([cpu |-> CpuInit,
                              bus |-> [BusInit EXCEPT !.ie_register = ie],
                              timer |-> [TimerNew EXCEPT !.div = 8, !.tima = 255,
                                                         !.tac = 5],
                              dma |-> DmaNew,
                              lcd |-> [LcdNew EXCEPT !.ly = 143, !.stat = 16],
                              ppu |-> [PpuNew EXCEPT !.line_ticks = 448],
                              gamepad |-> GamepadNew, ctx |-> CtxInit])
          IN  /\ cpu = m.cpu /\ bus = m.bus /\ timer = m.timer /\ dma = m.dma
              /\ lcd = m.lcd /\ ppu = m.ppu /\ gamepad = m.gamepad /\ ctx = m.ctx
    /\ apu = ApuNew
    /\ last = [kind |-> "init", n |-> 0, raised |-> 0]

\* Emulator::set_button, called by the host between two steps
RouteSetButton ==
    /\ last.kind # "set"
    /\ \E button \in RouteButtons, pressed \in BOOLEAN :
          gamepad' = set_button(gamepad, button, pressed)
    /\ last' = [last EXCEPT !.kind = "set"]
    /\ UNCHANGED <<apu, cpu, bus, timer, dma, lcd, ppu, ctx>>

\* Emulator::step, the path that dispatches an interrupt
RouteDispatch ==
    /\ last.n < MaxRouteSteps
    /\ \E m \in {StepEntry} :
       \E h \in {handle_interrupts([cpu |-> m.cpu, bus |-> m.bus])} :
       \E m1 \in {[m EXCEPT !.cpu = add_m_cycles(h.cpu, 5), !.bus = h.bus]} :
           /\ h.handled
           /\ Commit(TakeAndTick(m1, 0))
           /\ last' = [kind |-> "dispatch", n |-> last.n + 1, raised |-> Raised(m1, 0)]

\* Emulator::step, the path of a halted CPU
RouteHalted ==
    /\ last.n < MaxRouteSteps
    /\ \E m \in {StepEntry} :
       \E h \in {handle_interrupts([cpu |-> m.cpu, bus |-> m.bus])} :
       \E c1 \in {EnableIme(m.cpu)} :
       \E m1 \in {[m EXCEPT !.cpu = add_m_cycles(c1, 1),
                            !.bus = [m.bus EXCEPT !.int_flags = m.cpu.int_flags]]} :
           /\ ~h.handled
           /\ c1.halted
           /\ \E m2 \in {TakeAndTick(m1, 0)} :
                 Commit([m2 EXCEPT !.cpu = HaltWake(m2.cpu)])
           /\ last' = [kind |-> "halt", n |-> last.n + 1, raised |-> Raised(m1, 0)]

\* Emulator::step, the path that fetches and executes an instruction
RouteExecute ==
    /\ last.n < MaxRouteSteps
    /\ \E m \in {StepEntry} :
       \E h \in {handle_interrupts([cpu |-> m.cpu, bus |-> m.bus])} :
       \E c1 \in {EnableIme(m.cpu)} :
           /\ ~h.handled
           /\ ~c1.halted
           /\ \E inst \in RouteInstructions :
              \E x \in {Execute([cpu |-> c1,
                                 bus |-> [m.bus EXCEPT !.int_flags = m.cpu.int_flags]],
                                inst)} :
              \E c2 \in {[x.cpu EXCEPT !.ie_register = x.bus.ie_register,
                                       !.int_flags = x.bus.int_flags]} :
              \E m1 \in {SyncFromBus([m EXCEPT !.cpu = c2, !.bus = x.bus])} :
                  /\ Commit(TakeAndTick(m1, 4))
                  /\ last' = [kind |-> "instr", n |-> last.n + 1,
                              raised |-> Raised(m1, 4)]

NextRoute == RouteSetButton \/ RouteDispatch \/ RouteHalted \/ RouteExecute

SpecRoute == InitRoute /\ [][NextRoute]_vars

\* C32: at the end of every driver step the request flags of the timer, the
\* PPU, the LCD and the joypad are clear, every request the step had to
\* route has its bit set in IF, and the CPU's and the bus's IF are equal
C32_RequestsRoutedToIf ==
    last.kind \in {"dispatch", "halt", "instr"} =>
        /\ ~timer.interrupt_requested
        /\ ~ppu.vblank_interrupt
        /\ ~lcd.stat_interrupt
        /\ ~gamepad.interrupt_requested
        /\ And8(cpu.int_flags, last.raised) = last.raised
        /\ cpu.int_flags = bus.int_flags

\* a step that had to route a request of each of the four sources
C32_Witness ==
    /\ last.kind \in {"dispatch", "halt", "instr"}
    /\ last.raised = 23
    /\ And8(bus.int_flags, 23) = 23

(***************************************************************************)
(* SpecPixel: Ppu::render_scanline on one pixel column.  The program sets  *)
(* LCDC, BGP, WY and WX once; every render step then draws the current     *)
(* line and moves to the next.  The tile rows the code fetches from VRAM   *)
(* for the background, the window and the sprite on the line (two bytes,   *)
(* low plane and high plane) are inputs of the step, as are the column x   *)
(* and the sprite's attribute byte; the sprite covers columns 0 to 7.      *)
(* last records the inputs (x, bg_row, win_row, flags, obj_row), the       *)
(* pixel drawn (pixel), and the window line counter and the registers as   *)
(* the render found them (window_line0, lcd0).                             *)
(***************************************************************************)
MaxPixelLines == 2

PixelLcdcVals == {145, 147, 178, 179}
BgpVals == {252, 228, 27}
WxVals == {7, 15, 167}
WyVals == {0, 1}
PixelXs == {0, 8}
PixelRows == {<<0, 0>>, <<255, 0>>, <<0, 255>>, <<255, 255>>}
WindowRows == {<<0, 0>>, <<255, 255>>}
SpriteRows == {<<0, 0>>, <<255, 0>>}
SpriteFlags == {0, 128, 144}

\* Lcd::new with the scroll and palette registers
PixelLcdNew == [scx |-> 0, scy |-> 0, bgp |-> 252, obp0 |-> 255, obp1 |-> 255] @@ LcdNew

bg_window_enabled(l) == bit(l.lcdc, 0)
sprites_enabled(l) == bit(l.lcdc, 1)

\* Lcd::bg_color, Lcd::sprite_color_0, Lcd::sprite_color_1
bg_color(l, color_id) == (l.bgp \div (4 ^ color_id)) % 4
sprite_color_0(l, color_id) == (l.obp0 \div (4 ^ color_id)) % 4
sprite_color_1(l, color_id) == (l.obp1 \div (4 ^ color_id)) % 4

\* the colour ID of a tile row at a bit position: high plane bit, low plane bit
color_bit(row, pixel_x) == BitVal(row[2], pixel_x) * 2 + BitVal(row[1], pixel_x)

\* Ppu::get_tile_pixel on the fetched row: the colour ID mapped through BGP
get_tile_pixel(l, row, x) == bg_color(l, color_bit(row, 7 - (x % 8)))

\* Ppu::get_bg_pixel
get_bg_pixel(l, row, x) == get_tile_pixel(l, row, (l.scx + x) % 256)

\* the window column of screen column x
win_x(l, x) == x - (l.wx - 7)

\* get_window_pixel returns Some
window_pixel_visible(l, x) == ~(l.wx > 166 \/ l.wy > l.ly) /\ win_x(l, x) >= 0

\* Ppu::get_window_pixel (-1 is None)
get_window_pixel(l, row, x) ==
    IF window_pixel_visible(l, x) THEN get_tile_pixel(l, row, win_x(l, x)) ELSE -1

\* Ppu::get_sprite_pixel for the one sprite on the line, at OAM x = 8:
\* <<>> is None, <<colour, priority>> is Some
get_sprite_pixel(l, flags, row, x) ==
    LET sprite_x == 8 - 8
        px == IF bit(flags, 5) THEN 7 - (x - sprite_x) ELSE x - sprite_x
    IN  IF x < sprite_x \/ x >= sprite_x + 8 THEN <<>>
        ELSE IF color_bit(row, 7 - px) = 0 THEN <<>>
        ELSE <<IF bit(flags, 4) THEN sprite_color_1(l, color_bit(row, 7 - px))
               ELSE sprite_color_0(l, color_bit(row, 7 - px)),
               bit(flags, 7)>>

\* the body of the column loop of render_scanline: the colour drawn and
\* whether it is the window's and whether it is the sprite's
render_pixel(l, x, bg_row, win_row, flags, obj_row) ==
    LET bg == IF bg_window_enabled(l) THEN get_bg_pixel(l, bg_row, x) ELSE 0
        win == IF window_enabled(l) /\ bg_window_enabled(l)
               THEN get_window_pixel(l, win_row, x) ELSE -1
        color == IF win # -1 THEN win ELSE bg
        obj == IF sprites_enabled(l) THEN get_sprite_pixel(l, flags, obj_row, x)
               ELSE <<>>
    IN  IF obj # <<>> /\ (~obj[2] \/ color = 0)
        THEN [color |-> obj[1], window |-> win # -1, sprite |-> TRUE]
        ELSE [color |-> color, window |-> win # -1, sprite |-> FALSE]

InitPixel ==
    /\ cpu = CpuInit /\ bus = BusInit /\ timer = TimerNew /\ dma = DmaNew
    /\ gamepad = GamepadNew /\ ctx = CtxInit /\ apu = ApuNew
    /\ ppu = PpuNew
    /\ lcd = PixelLcdNew
    /\ last = [kind |-> "init"]

\* the program's writes to LCDC, BGP, WY and WX as the driver's register
\* sync hands them to the LCD
PixelRegisterStep ==
    /\ last.kind = "init"
    /\ \E lcdc \in PixelLcdcVals, bgp \in BgpVals, wy \in WyVals, wx \in WxVals :
          lcd' = [lcd EXCEPT !.lcdc = lcdc, !.bgp = bgp, !.wy = wy, !.wx = wx]
    /\ last' = [kind |-> "regs"]
    /\ UNCHANGED <<apu, cpu, bus, timer, dma, ppu, gamepad, ctx>>

\* render_scanline for line LY, then the move to the next line
PixelRenderStep ==
    /\ last.kind # "init"
    /\ lcd.ly < MaxPixelLines
    /\ \E x \in PixelXs, bg_row \in PixelRows, win_row \in WindowRows,
          flags \in SpriteFlags, obj_row \in SpriteRows :
          last' = [kind |-> "render", x |-> x, bg_row |-> bg_row, win_row |-> win_row,
                   flags |-> flags, obj_row |-> obj_row,
                   pixel |-> render_pixel(lcd, x, bg_row, win_row, flags, obj_row),
                   window_line0 |-> ppu.window_line, lcd0 |-> lcd]
    /\ ppu' = render_scanline(ppu, lcd)
    /\ lcd' = [lcd EXCEPT !.ly = lcd.ly + 1]
    /\ UNCHANGED <<apu, cpu, bus, timer, dma, gamepad, ctx>>

NextPixel == PixelRegisterStep \/ PixelRenderStep

SpecPixel == InitPixel /\ [][NextPixel]_vars

\* the colour ID, before BGP, of the background or window pixel under the
\* rendered column (0 when the layer is switched off)
LayerColorId ==
    LET l == last.lcd0
    IN  IF ~bg_window_enabled(l) THEN 0
        ELSE IF window_enabled(l) /\ window_pixel_visible(l, last.x)
        THEN color_bit(last.win_row, 7 - (win_x(l, last.x) % 8))
        ELSE color_bit(last.bg_row, 7 - (((l.scx + last.x) % 256) % 8))

\* the rendered column is covered by a non-transparent sprite pixel
SpriteCovers ==
    /\ sprites_enabled(last.lcd0)
    /\ last.x \in 0 .. 7
    /\ color_bit(last.obj_row, IF bit(last.flags, 5) THEN last.x ELSE 7 - last.x) # 0

\* C36: under a non-transparent sprite pixel with attribute bit 7 set the
\* sprite pixel is drawn iff the colour ID of the background or window
\* pixel, before BGP, is 0, whatever BGP is; with bit 7 clear it is always
\* drawn.
C36_SpritePriorityUsesColorId ==
    (last.kind = "render" /\ SpriteCovers) =>
        IF bit(last.flags, 7) THEN (last.pixel.sprite <=> LayerColorId = 0)
        ELSE last.pixel.sprite

\* some column of the line takes its pixel from the window
WindowDrawn(l) ==
    /\ window_enabled(l) /\ bg_window_enabled(l)
    /\ \E x \in 0 .. 159 : window_pixel_visible(l, x)

\* C37: the window line counter grows by 1 at the end of a rendered line iff
\* a window pixel was drawn on that line, and is unchanged otherwise.
C37_WindowLineCountsDrawnLines ==
    last.kind = "render" =>
        ppu.window_line = last.window_line0 + (IF WindowDrawn(last.lcd0) THEN 1 ELSE 0)

(***************************************************************************)
(* SpecSeq: the APU alone, ticked through Apu::tick after the program has  *)
(* set up and triggered the four channels through Apu::write: channel 1    *)
(* with a sweep of period 1 and shift 1 from frequency 0x400, channels 1,  *)
(* 2 and 4 with an envelope of period 1, every channel with 2 length       *)
(* steps left, channel 4 with clock_shift 0, divisor_code 1 and            *)
(* width_mode 0.  The envelope byte and the trigger byte (with or without  *)
(* the length enable) are drawn.  last records the number of ticks since   *)
(* the trigger (n) and the APU before the tick (pre).                      *)
(***************************************************************************)
MaxSeqTicks == 65536

\* 0xF1: volume 15 falling; 0x19: volume 1 rising
SeqEnvelopes == {241, 25}

\* 0xC4: trigger with length enable; 0x84: trigger without
SeqTriggers == {196, 132}

\* the writes of the program, in order
SeqWrites(env, trig) ==
    <<<<65296, 17>>, <<65297, 62>>, <<65298, env>>, <<65299, 0>>, <<65300, trig>>,
      <<65302, 62>>, <<65303, env>>, <<65305, trig>>,
      <<65306, 128>>, <<65307, 254>>, <<65310, trig>>,
      <<65312, 62>>, <<65313, env>>, <<65314, 1>>, <<65315, trig>>>>

\* Apu::write applied to the first k writes of a program
RECURSIVE ApuWriteAll(_, _, _)
ApuWriteAll(a, writes, k) ==
    IF k = 0 THEN a
    ELSE ApuWrite(ApuWriteAll(a, writes, k - 1), writes[k][1], writes[k][2])

InitSeq ==
    /\ cpu = CpuInit /\ bus = BusInit /\ timer = TimerNew /\ dma = DmaNew
    /\ lcd = LcdNew /\ ppu = PpuNew /\ gamepad = GamepadNew /\ ctx = CtxInit
    /\ apu = ApuSeqNew
    /\ last = [kind |-> "init", n |-> 0, pre |-> ApuSeqNew]

\* the program's register writes
SeqProgramStep ==
    /\ last.kind = "init"
    /\ \E env \in SeqEnvelopes, trig \in SeqTriggers :
          apu' = ApuWriteAll(apu, SeqWrites(env, trig), Len(SeqWrites(env, trig)))
    /\ last' = [kind |-> "program", n |-> 0, pre |-> apu]
    /\ UNCHANGED <<cpu, bus, timer, dma, lcd, ppu, gamepad, ctx>>

\* Apu::tick
SeqTickStep ==
    /\ last.kind # "init"
    /\ last.n < MaxSeqTicks
    /\ apu' = ApuTick(apu)
    /\ last' = [kind |-> "tick", n |-> last.n + 1, pre |-> apu]
    /\ UNCHANGED <<cpu, bus, timer, dma, lcd, ppu, gamepad, ctx>>

NextSeq == SeqProgramStep \/ SeqTickStep

SpecSeq == InitSeq /\ [][NextSeq]_vars

\* C38: while the APU is powered the frame sequencer fires on every 8192nd
\* tick with its step cycling 0..7; a firing at step 0 or 4 ticks the four
\* length counters, at step 2 or 6 the four length counters and channel 1's
\* sweep, at step 7 the envelopes of channels 1, 2 and 4, and at steps 1, 3
\* and 5 nothing.
C38_FrameSequencerSchedule ==
    (last.kind = "tick" /\ last.pre.enabled) =>
        LET pre == last.pre
            s == pre.frame_sequencer_step
            fires == last.n % 8192 = 0
            len == fires /\ s \in {0, 2, 4, 6}
            swp == fires /\ s \in {2, 6}
            env == fires /\ s = 7
            L(c) == IF len THEN tick_length(c) ELSE c
            S(c) == IF swp THEN tick_sweep(c) ELSE c
            E(c) == IF env THEN tick_envelope(c) ELSE c
        IN  /\ fires => s = ((last.n \div 8192) - 1) % 8
            /\ apu.frame_sequencer_step = IF fires THEN (s + 1) % 8 ELSE s
            /\ apu.ch1 = Channel1Tick(E(S(L(pre.ch1))))
            /\ apu.ch2 = Channel1Tick(E(L(pre.ch2)))
            /\ apu.ch3 = Channel3Tick(L(pre.ch3))
            /\ apu.ch4 = Channel4Tick(E(L(pre.ch4)))

\* the eighth firing, at step 7: the step is back to 0, the falling envelope
\* has moved, the length counters have run out and the sweep has moved the
\* frequency once
C38_Witness ==
    /\ last.kind = "tick" /\ last.n = 65536
    /\ last.pre.frame_sequencer_step = 7 /\ apu.frame_sequencer_step = 0
    /\ last.pre.ch1.volume = 15 /\ apu.ch1.volume = 14
    /\ apu.ch2.length_counter = 0 /\ ~apu.ch2.enabled
    /\ apu.ch1.frequency = 1536

\* the standard 15-bit shift register: bit 0 xor bit 1 enters at bit 14
StdLfsrStep(x) == (x \div 2) + (((x % 2) + ((x \div 2) % 2)) % 2) * 16384

\* its value after k steps from 0x7FFF
RECURSIVE StdLfsr(_)
StdLfsr(k) == IF k = 0 THEN 32767 ELSE StdLfsrStep(StdLfsr(k - 1))

\* C39: after channel 4 is triggered with clock_shift 0, divisor_code 1 and
\* width_mode 0 the shift register is 0x7FFF; it changes only at a period
\* expiry (every 16th tick), to (lfsr >> 1) | (((lfsr ^ (lfsr >> 1)) & 1) << 14),
\* and its first 15 output bits are those of the standard 15-bit register
\* started at 0x7FFF.
C39_LfsrSequence ==
    /\ last.kind = "program" => apu.ch4.lfsr = 32767
    /\ last.kind = "tick" =>
          /\ apu.ch4.lfsr = IF last.n % 16 = 0 THEN StdLfsrStep(last.pre.ch4.lfsr)
                            ELSE last.pre.ch4.lfsr
          /\ (last.n % 16 = 0 /\ last.n \div 16 <= 15) =>
                apu.ch4.lfsr % 2 = StdLfsr(last.n \div 16) % 2

\* the fifteenth expiry: the first 0 leaves the register
C39_Witness ==
    /\ last.kind = "tick" /\ last.n = 240
    /\ last.pre.ch4.lfsr = 1 /\ apu.ch4.lfsr = 16384
    /\ apu.ch4.clock_shift = 0 /\ apu.ch4.divisor_code = 1 /\ ~apu.ch4.width_mode

(***************************************************************************)
(* SpecDac: the APU alone, driven through Apu::write on NR52 and on the    *)
(* DAC and trigger registers of one channel, drawn at the start, and       *)
(* through Apu::tick.  The run starts at construction or 8191 ticks later, *)
(* one tick before the first firing of the frame sequencer.  last records  *)
(* the channel written (ch), the operation, the write's address and value, *)
(* the number of ticks (n) and the flags of the APU before the operation   *)
(* (pre).                                                                  *)
(***************************************************************************)
MaxDacTicks == 2

\* NR12 and NR14, NR22 and NR24, NR30 and NR34, NR42 and NR44; NR52
DacAddrs(ch) ==
    CASE ch = 1 -> {65298, 65300, 65318}
      [] ch = 2 -> {65303, 65305, 65318}
      [] ch = 3 -> {65306, 65310, 65318}
      [] OTHER -> {65313, 65315, 65318}

\* 0x00: DAC off, no trigger, power off; 0x07: DAC off (of the envelope
\* registers); 0xC7: DAC on, trigger with length enable, power on
DacVals == {0, 7, 199}

\* the APU 8191 ticks after construction: the frequency timers of the idle
\* channels have reloaded
ApuBeforeFirstFiring ==
    [ApuSeqNew EXCEPT !.frame_sequencer_timer = 8191,
                      !.ch1.timer = 2, !.ch1.duty_position = 1,
                      !.ch2.timer = 2, !.ch2.duty_position = 1,
                      !.ch3.timer = 2, !.ch3.wave_position = 2,
                      !.ch4.timer = 2, !.ch4.lfsr = 10239]

\* the power flag and the enabled and DAC flags of the four channels
DacFlags(a) ==
    [enabled |-> a.enabled,
     ch1 |-> [enabled |-> a.ch1.enabled, dac_enabled |-> a.ch1.dac_enabled],
     ch2 |-> [enabled |-> a.ch2.enabled, dac_enabled |-> a.ch2.dac_enabled],
     ch3 |-> [enabled |-> a.ch3.enabled, dac_enabled |-> a.ch3.dac_enabled],
     ch4 |-> [enabled |-> a.ch4.enabled, dac_enabled |-> a.ch4.dac_enabled]]

InitDac ==
    /\ cpu = CpuInit /\ bus = BusInit /\ timer = TimerNew /\ dma = DmaNew
    /\ lcd = LcdNew /\ ppu = PpuNew /\ gamepad = GamepadNew /\ ctx = CtxInit
    /\ apu \in {ApuSeqNew, ApuBeforeFirstFiring}
    /\ \E ch \in 1 .. 4 :
          last = [kind |-> "init", ch |-> ch, addr |-> 0, value |-> 0, n |-> 0,
                  pre |-> DacFlags(apu)]

\* Apu::write
DacWriteStep ==
    /\ \E address \in DacAddrs(last.ch), value \in DacVals :
          /\ apu' = ApuWrite(apu, address, value)
          /\ last' = [last EXCEPT !.kind = "write", !.addr = address,
                                  !.value = value, !.pre = DacFlags(apu)]
    /\ UNCHANGED <<cpu, bus, timer, dma, lcd, ppu, gamepad, ctx>>

\* Apu::tick
DacTickStep ==
    /\ last.n < MaxDacTicks
    /\ apu' = ApuTick(apu)
    /\ last' = [last EXCEPT !.kind = "tick", !.addr = 0, !.value = 0,
                            !.n = last.n + 1, !.pre = DacFlags(apu)]
    /\ UNCHANGED <<cpu, bus, timer, dma, lcd, ppu, gamepad, ctx>>

NextDac == DacWriteStep \/ DacTickStep

SpecDac == InitDac /\ [][NextDac]_vars

\* C40: in every reachable state each of the four channels is enabled only
\* if its DAC is enabled: a trigger enables the channel only when the DAC is
\* on, and a write that turns the DAC off disables the channel in that write.
C40_EnabledImpliesDac ==
    /\ apu.ch1.enabled => apu.ch1.dac_enabled
    /\ apu.ch2.enabled => apu.ch2.dac_enabled
    /\ apu.ch3.enabled => apu.ch3.dac_enabled
    /\ apu.ch4.enabled => apu.ch4.dac_enabled
    /\ (last.kind = "write" /\ last.pre.enabled /\ last.value = 199) =>
          /\ last.addr = 65300 => (apu.ch1.enabled <=> last.pre.ch1.dac_enabled)
          /\ last.addr = 65305 => (apu.ch2.enabled <=> last.pre.ch2.dac_enabled)
          /\ last.addr = 65310 => (apu.ch3.enabled <=> last.pre.ch3.dac_enabled)
          /\ last.addr = 65315 => (apu.ch4.enabled <=> last.pre.ch4.dac_enabled)

\* a write of 0x07 to NR42 turns off the DAC of the running channel 4 and
\* disables it in the same write
C40_Witness ==
    /\ last.kind = "write" /\ last.addr = 65313 /\ last.value = 7
    /\ last.pre.enabled /\ last.pre.ch4.enabled /\ last.pre.ch4.dac_enabled
    /\ ~apu.ch4.enabled /\ ~apu.ch4.dac_enabled
    /\ last.n = 1

====
